---- MODULE Spec2Model ----
(***************************************************************************)
(* Haven TTRPG backend: message delivery and presence subsystem.           *)
(*                                                                         *)
(*   routers/messages.py  ConnectionManager, send_direct_message,          *)
(*                        websocket_dm_endpoint                            *)
(*   routers/rp_chat.py   RpConnectionManager, send_rp_message,            *)
(*                        websocket_rp_chat_endpoint                       *)
(*   crud.py              direct messages, notifications, DM cooldowns     *)
(*   utils/email_utils.py send_email_notification                          *)
(*                                                                         *)
(* The server is one asyncio event loop: a handler runs without            *)
(* interleaving until it awaits network I/O.  The database calls of the    *)
(* handlers are synchronous, so a handler is one atomic step up to its     *)
(* first awaited send.  Time is counted in minutes.                        *)
(***************************************************************************)
EXTENDS Integers, Sequences, FiniteSets, TLC

\* ---------------------------------------------------------------- bounds
NumUsers == 2
\* presence specification (SpecDm): sockets of /ws/dm, direct messages sent
MaxDmSockets == 2
MaxDms == 1
\* cool-down and e-mail specifications (SpecCooldown, SpecEmail): sockets,
\* direct messages, clock
MaxCooldownSockets == 1
MaxCooldownDms == 2
MaxTime == 15
\* roleplay chat specification (SpecRp)
MaxRpSockets == 3
MaxRpMessages == 2
\* digest specification (SpecDigest): runs of the digest task, notifications
\* created, clock in hours
MaxDigestRuns == 2
MaxDigestNotifications == 3
MaxDigestHours == 25
\* dice specification (SpecDice): sockets of the channel, rolls persisted
MaxDiceSockets == 1
MaxDiceMessages == 2
\* the roll requests of SpecDice: notations with at most this many outcomes
MaxRollOutcomes == 16
\* several server processes on one database (SpecWorkers)
NumWorkers == 2
MaxWorkerDms == 2
\* selection specification (SpecSelect): what one digest run picks up
MaxSelectRuns == 1
MaxSelectNotifications == 2
\* push specification (SpecPush): sockets of each endpoint, messages of each
\* kind
MaxPushSockets == 1
MaxPushMessages == 1
\* registry specification (SpecRegistry): sockets of each endpoint, messages
\* broadcast
MaxRegistrySockets == 2
MaxRegistryMessages == 1
\* notification flags specification (SpecFlags): notifications created
MaxFlagNotifications == 2
\* recurring digest specification (SpecRecur): notifications created, and
\* periods of the digest clock after the start
MaxRecurNotifications == 2
MaxRecurPeriods == 2
\* overlapping digest runs specification (SpecOverlap): notifications created
MaxOverlapNotifications == 2

\* ------------------------------------------------------ program constants
DM_EMAIL_COOLDOWN_MINUTES == 15
TEST_CHANNEL_ID_FOR_GDM_RP == "gdm-rp-test-channel"
PLACEHOLDER_GAME_ID_FOR_DB == 0
DIGEST_PERIOD_HOURS == 24
DIGEST_NOTIFICATION_TYPES ==
  {"new_game_post", "game_updated", "player_joined_your_game", "application_to_your_game"}
EXCLUDED_FROM_DIGEST_TYPES == {"new_dm"}

Users == 1..NumUsers
\* a user id that no row of the users table carries
UnknownUserId == NumUsers + 1
DmSockets == 1..MaxDmSockets
RpSockets == 1..MaxRpSockets
Channels == {TEST_CHANNEL_ID_FOR_GDM_RP, "other-channel"}
DigestRuns == 1..MaxDigestRuns
\* the type tags notifications are created with: one that goes into digests,
\* the one of direct messages, and one that is in neither list of tasks.py
NotificationTypes == {"new_game_post", "new_dm", "game_invite"}

\* Time zone configurations of the database session: what func.now() and a
\* DateTime(timezone=True) column give back (naive UTC wall clock, aware UTC,
\* aware with a +01:00 offset).
DbTimezones ==
  { [tz |-> "naive", utcoffset |-> 0],
    [tz |-> "aware", utcoffset |-> 0],
    [tz |-> "aware", utcoffset |-> 60] }

VARIABLES
  now,                       \* UTC wall clock, minutes
  db_session_tz,             \* time zone behaviour of the database
  users,                     \* users table: id -> row
  direct_messages,           \* direct_messages table, in id order
  notifications,             \* notifications table, in id order
  dm_notification_cooldowns, \* dm_notification_cooldowns table, in id order
  active_connections,        \* messages.manager.active_connections
  dm_ws,                     \* the WebSocket objects of /ws/dm
  email_tasks,               \* background tasks of responses, not yet run
  email_results,             \* per (sender, receiver): outcome of the last email run
  dm_response,               \* what the last /users/{id}/messages request did
  rp_active_connections,     \* rp_chat.rp_chat_manager.active_connections
  rp_ws,                     \* the WebSocket objects of /ws/{channel_id}, with the frames sent
  game_messages,             \* game_messages table, in id order
  rp_request,                \* the send_rp_message request in progress
  rp_response,               \* what the last finished rp-chat request did
  rp_roll,                   \* what the last rp_dice_roll request parsed
  digest_tasks,              \* the runs of _scheduled_digest_sender_task
  dm_workers                 \* send_direct_message requests in other server processes

dm_vars == <<now, db_session_tz, users, direct_messages, notifications,
             dm_notification_cooldowns, active_connections, dm_ws,
             email_tasks, email_results, dm_response>>
rp_vars == <<rp_active_connections, rp_ws, game_messages, rp_request, rp_response>>
vars == <<now, db_session_tz, users, direct_messages, notifications,
          dm_notification_cooldowns, active_connections, dm_ws,
          email_tasks, email_results, dm_response,
          rp_active_connections, rp_ws, game_messages, rp_request, rp_response,
          rp_roll, digest_tasks, dm_workers>>
\* the state of the dice roller, the digest task and the other server processes
ext_vars == <<rp_roll, digest_tasks, dm_workers>>

\* ------------------------------------------------------------ Python dict
DictSet(d, k, v) == [x \in (DOMAIN d) \cup {k} |-> IF x = k THEN v ELSE d[x]]
DictDel(d, k) == [x \in (DOMAIN d) \ {k} |-> d[x]]
EmptyDict == [x \in {} |-> 0]

\* ------------------------------------------------------------- datetimes
\* A datetime is its wall-clock reading, whether it carries a tzinfo, and the
\* UTC offset of that tzinfo.
Datetime(wall, tz, utcoffset) == [wall |-> wall, tz |-> tz, utcoffset |-> utcoffset]

\* datetime.now(timezone.utc)
datetime_now_utc == Datetime(now, "aware", 0)

\* func.now() as stored by the database and read back through the ORM
func_now == Datetime(now + db_session_tz.utcoffset, db_session_tz.tz, db_session_tz.utcoffset)

\* the instant an aware datetime denotes; aware datetimes compare by it
utc_instant(dt) == dt.wall - dt.utcoffset

\* dt + timedelta(minutes=m)
datetime_add_minutes(dt, m) == [dt EXCEPT !.wall = @ + m]

\* a nullable DateTime column that holds NULL
NoDatetime == [wall |-> 0, tz |-> "none", utcoffset |-> 0]

\* datetime.isoformat(): the wall-clock reading, followed by the UTC offset
\* when the datetime is aware
isoformat(dt) ==
  [wall |-> dt.wall,
   offset |-> CASE dt.tz = "naive" -> ""
                [] dt.tz = "aware" /\ dt.utcoffset = 0 -> "+00:00"
                [] OTHER -> "+01:00"]


\* ------------------------------------------------- messages.ConnectionManager
\* connect that keeps an entry the user already has
ConnectionManager_connect_keep_first(conns, websocket, user_id) ==
  IF user_id \in DOMAIN conns THEN conns ELSE DictSet(conns, user_id, websocket)

\* ConnectionManager.connect: self.active_connections[user_id] = websocket
ConnectionManager_connect(conns, websocket, user_id) == DictSet(conns, user_id, websocket)

\* disconnect that leaves the entry where it is
ConnectionManager_disconnect_skipped(conns, user_id) == conns

\* ConnectionManager.disconnect: delete the entry of user_id when there is one
ConnectionManager_disconnect(conns, user_id) ==
  IF user_id \in DOMAIN conns THEN DictDel(conns, user_id) ELSE conns

\* What awaiting websocket.send_json / send_text can do, by the state of the
\* transport: an open one takes the frame; one whose peer is gone but whose
\* receive loop has not noticed yet either buffers the frame or raises; a
\* closed one raises.
send_outcomes(ws_state) ==
  CASE ws_state = "open" -> {"sent"}
    [] ws_state = "broken" -> {"sent", "raised"}
    [] OTHER -> {"raised"}

\* ConnectionManager.send_personal_message_json: the outcomes of the push to
\* user_id; nothing is sent when user_id has no entry.  An exception of
\* send_json is not caught here.
send_personal_message_json(conns, sockets, user_id) ==
  IF user_id \in DOMAIN conns
    THEN send_outcomes(sockets[conns[user_id]].state)
    ELSE {"none"}

\* ------------------------------------------------------------------ crud
\* crud.get_user_by_id: the row, or no row
get_user_by_id(user_id) == IF user_id \in DOMAIN users THEN <<users[user_id]>> ELSE <<>>

\* crud.create_direct_message: the row that is inserted
create_direct_message(table, sender_id, receiver_id) ==
  [id |-> Len(table) + 1, sender_id |-> sender_id, receiver_id |-> receiver_id,
   timestamp |-> func_now, is_read |-> FALSE]

\* crud.create_notification: the row that is inserted
create_notification(table, user_id, type) ==
  [id |-> Len(table) + 1, user_id |-> user_id, type |-> type,
   is_read |-> FALSE, emailed_in_digest |-> FALSE, timestamp |-> func_now]

\* query that also takes the row of the reversed pair
get_dm_notification_cooldown_either_way(table, original_sender_id, receiver_id) ==
  LET hits == {i \in DOMAIN table :
                 \/ /\ table[i].original_sender_id = original_sender_id
                    /\ table[i].receiver_id = receiver_id
                 \/ /\ table[i].original_sender_id = receiver_id
                    /\ table[i].receiver_id = original_sender_id}
  IN IF hits = {} THEN 0 ELSE CHOOSE i \in hits : \A j \in hits : i <= j

\* crud.get_dm_notification_cooldown: .first() of the rows of the pair, as
\* the index of the row in the table, 0 when there is none
get_dm_notification_cooldown(table, original_sender_id, receiver_id) ==
  LET hits == {i \in DOMAIN table :
                 /\ table[i].original_sender_id = original_sender_id
                 /\ table[i].receiver_id = receiver_id}
  IN IF hits = {} THEN 0 ELSE CHOOSE i \in hits : \A j \in hits : i <= j

\* crud.upsert_dm_notification_cooldown after its query: the row found (i) is
\* updated, or with none found (i = 0) a new row is added; then the commit
upsert_dm_notification_cooldown_write(table, i, original_sender_id, receiver_id) ==
  IF i # 0
    THEN [table EXCEPT ![i].last_email_sent_at = func_now]
    ELSE Append(table, [id |-> Len(table) + 1,
                        original_sender_id |-> original_sender_id,
                        receiver_id |-> receiver_id,
                        last_email_sent_at |-> func_now])

\* crud.upsert_dm_notification_cooldown: the table after the upsert
upsert_dm_notification_cooldown(table, original_sender_id, receiver_id) ==
  upsert_dm_notification_cooldown_write(
    table, get_dm_notification_cooldown(table, original_sender_id, receiver_id),
    original_sender_id, receiver_id)

\* ------------------------------------------------ messages.send_direct_message
\* presence test with the membership turned around
is_receiver_online_ws_inverted(conns, receiver_id) == receiver_id \notin DOMAIN conns

\* is_receiver_online_ws = receiver_user.id in manager.active_connections
is_receiver_online_ws(conns, receiver_id) == receiver_id \in DOMAIN conns

\* last_sent_aware that stamps UTC on every timestamp, aware ones included
last_sent_aware_replace_always(last_email_sent_at) ==
  Datetime(last_email_sent_at.wall, "aware", 0)

\* last_sent_aware: a naive timestamp is taken to be UTC, an aware one is kept
last_sent_aware(last_email_sent_at) ==
  IF last_email_sent_at.tz = "naive"
    THEN Datetime(last_email_sent_at.wall, "aware", 0)
    ELSE last_email_sent_at

\* cool-down check whose comparison is turned around
can_send_email_reversed(table, original_sender_id, receiver_id) ==
  LET i == get_dm_notification_cooldown(table, original_sender_id, receiver_id)
  IN IF i # 0
       THEN ~ (utc_instant(datetime_now_utc)
                 > utc_instant(datetime_add_minutes(last_sent_aware(table[i].last_email_sent_at),
                                                    DM_EMAIL_COOLDOWN_MINUTES)))
       ELSE TRUE

\* can_send_email after the cool-down check of lines 139-147
can_send_email(table, original_sender_id, receiver_id) ==
  LET i == get_dm_notification_cooldown(table, original_sender_id, receiver_id)
  IN IF i # 0
       THEN ~ (utc_instant(datetime_now_utc)
                 < utc_instant(datetime_add_minutes(last_sent_aware(table[i].last_email_sent_at),
                                                    DM_EMAIL_COOLDOWN_MINUTES)))
       ELSE TRUE

\* schemas.DirectMessage.from_orm(row).model_dump(mode='json'): the fields of
\* the row with the timestamp in ISO format
DirectMessage_from_orm(row) ==
  [id |-> row.id, sender_id |-> row.sender_id, receiver_id |-> row.receiver_id,
   timestamp |-> isoformat(row.timestamp), is_read |-> row.is_read]

NoDmResponse ==
  [op |-> "none", status |-> 0, sender_id |-> 0, receiver_id |-> 0, message_id |-> 0,
   is_receiver_online_ws |-> FALSE, cooldown_read |-> FALSE, can_send_email |-> FALSE,
   email_scheduled |-> FALSE, cooldown_written |-> FALSE, push |-> "none",
   message_to_send |-> <<>>]

\* POST /api/users/{receiver_user_id}/messages by current_user
send_direct_message(current_user_id, receiver_user_id) ==
  /\ IF current_user_id = receiver_user_id
       THEN \* 400 Cannot send a message to yourself
         /\ dm_response' = [NoDmResponse EXCEPT !.op = "send_direct_message", !.status = 400]
         /\ UNCHANGED <<direct_messages, notifications, dm_notification_cooldowns, email_tasks>>
     ELSE IF get_user_by_id(receiver_user_id) = <<>>
       THEN \* 404 Receiver user not found
         /\ dm_response' = [NoDmResponse EXCEPT !.op = "send_direct_message", !.status = 404]
         /\ UNCHANGED <<direct_messages, notifications, dm_notification_cooldowns, email_tasks>>
     ELSE \E stored \in BOOLEAN :
       IF ~stored
       THEN \* the commit of crud.create_direct_message raises: the request ends
            \* with nothing stored and nothing pushed
         /\ dm_response' = [NoDmResponse EXCEPT !.op = "send_direct_message", !.status = 500]
         /\ UNCHANGED <<direct_messages, notifications, dm_notification_cooldowns, email_tasks>>
       ELSE
       LET receiver_user == users[receiver_user_id]
           new_dm_db == create_direct_message(direct_messages, current_user_id, receiver_user_id)
           message_to_send == DirectMessage_from_orm(new_dm_db)
           wants_email == receiver_user.email_notifications_enabled /\ receiver_user.email # ""
           online == is_receiver_online_ws(active_connections, receiver_user_id)
           cooldown_read == wants_email /\ ~online
           can_send == cooldown_read
                         /\ can_send_email(dm_notification_cooldowns, current_user_id, receiver_user_id)
           task == [original_sender_id |-> current_user_id, receiver_id |-> receiver_user_id,
                    scheduled_at |-> now]
       IN /\ direct_messages' = Append(direct_messages, new_dm_db)
          /\ notifications' = Append(notifications,
                                     create_notification(notifications, receiver_user_id, "new_dm"))
          /\ dm_notification_cooldowns' =
               IF can_send
                 THEN upsert_dm_notification_cooldown(dm_notification_cooldowns,
                                                      current_user_id, receiver_user_id)
                 ELSE dm_notification_cooldowns
          /\ \E push \in send_personal_message_json(active_connections, dm_ws, receiver_user_id) :
               \* the background tasks run only when the handler returns a response
               /\ email_tasks' = IF can_send /\ push # "raised"
                                   THEN email_tasks \cup {task} ELSE email_tasks
               /\ dm_response' =
                    [op |-> "send_direct_message",
                     status |-> IF push = "raised" THEN 500 ELSE 201,
                     sender_id |-> current_user_id, receiver_id |-> receiver_user_id,
                     message_id |-> new_dm_db.id,
                     is_receiver_online_ws |-> online,
                     cooldown_read |-> cooldown_read,
                     can_send_email |-> can_send,
                     email_scheduled |-> can_send,
                     cooldown_written |-> can_send,
                     push |-> push,
                     message_to_send |-> IF push = "none" THEN <<>> ELSE <<message_to_send>>]
  /\ UNCHANGED <<now, db_session_tz, users, active_connections, dm_ws, email_results>>
  /\ UNCHANGED <<rp_vars, ext_vars>>

\* ------------------------------------------------- email_utils / background
\* A background task runs send_email_notification: fm_instance.send_message
\* either delivers or raises, and the exception is caught and printed.
send_email_notification(task, outcome) ==
  /\ task \in email_tasks
  /\ email_tasks' = email_tasks \ {task}
  /\ LET pair == <<task.original_sender_id, task.receiver_id>>
     IN email_results' =
          IF email_results[pair].scheduled_at <= task.scheduled_at
            THEN [email_results EXCEPT ![pair] = [scheduled_at |-> task.scheduled_at,
                                                  outcome |-> outcome]]
            ELSE email_results
  /\ UNCHANGED <<now, db_session_tz, users, direct_messages, notifications,
                 dm_notification_cooldowns, active_connections, dm_ws, dm_response>>
  /\ UNCHANGED <<rp_vars, ext_vars>>

\* ------------------------------------------------ messages.websocket_dm_endpoint
\* A client opens /ws/dm.  Sockets are numbered in the order in which their
\* handlers reach manager.connect.  user_id = 0 stands for a token that does
\* not authenticate: the socket is closed and never registered.
websocket_dm_endpoint_connect(websocket, user_id) ==
  /\ dm_ws[websocket].state = "new"
  /\ \A w \in DmSockets : w < websocket => dm_ws[w].state # "new"
  /\ IF get_user_by_id(user_id) = <<>>
       THEN /\ dm_ws' = [dm_ws EXCEPT ![websocket] = [state |-> "closed", user_id |-> 0]]
            /\ UNCHANGED active_connections
       ELSE /\ dm_ws' = [dm_ws EXCEPT ![websocket] = [state |-> "open", user_id |-> user_id]]
            /\ active_connections' = ConnectionManager_connect(active_connections, websocket, user_id)
  /\ UNCHANGED <<now, db_session_tz, users, direct_messages, notifications,
                 dm_notification_cooldowns, email_tasks, email_results, dm_response>>
  /\ UNCHANGED <<rp_vars, ext_vars>>

\* The peer of an open socket goes away; the receive loop has not seen it yet.
dm_transport_lost(websocket) ==
  /\ dm_ws[websocket].state = "open"
  /\ dm_ws' = [dm_ws EXCEPT ![websocket].state = "broken"]
  /\ UNCHANGED <<now, db_session_tz, users, direct_messages, notifications,
                 dm_notification_cooldowns, active_connections, email_tasks,
                 email_results, dm_response>>
  /\ UNCHANGED <<rp_vars, ext_vars>>

\* receive_text raises (WebSocketDisconnect or another exception): both
\* except branches call manager.disconnect(current_user.id).
websocket_dm_endpoint_exit(websocket) ==
  /\ dm_ws[websocket].state \in {"open", "broken"}
  /\ dm_ws' = [dm_ws EXCEPT ![websocket].state = "closed"]
  /\ active_connections' = ConnectionManager_disconnect(active_connections, dm_ws[websocket].user_id)
  /\ UNCHANGED <<now, db_session_tz, users, direct_messages, notifications,
                 dm_notification_cooldowns, email_tasks, email_results, dm_response>>
  /\ UNCHANGED <<rp_vars, ext_vars>>

\* Time passes until the instant t.
Tick(t) ==
  /\ now < t
  /\ now' = t
  /\ UNCHANGED <<db_session_tz, users, direct_messages, notifications,
                 dm_notification_cooldowns, active_connections, dm_ws,
                 email_tasks, email_results, dm_response>>
  /\ UNCHANGED <<rp_vars, ext_vars>>

\* ------------------------------------------------ rp_chat.RpConnectionManager
Range(list) == {list[i] : i \in DOMAIN list}

\* list.remove(x): the list without the first occurrence of x
ListRemove(list, x) ==
  LET i == CHOOSE k \in DOMAIN list : list[k] = x /\ \A j \in 1..(k - 1) : list[j] # x
  IN SubSeq(list, 1, i - 1) \o SubSeq(list, i + 1, Len(list))

\* RpConnectionManager.connect: create the channel's list when missing, append
RpConnectionManager_connect(conns, websocket, channel_id) ==
  LET with_key == IF channel_id \notin DOMAIN conns THEN DictSet(conns, channel_id, <<>>) ELSE conns
  IN DictSet(with_key, channel_id, Append(with_key[channel_id], websocket))

\* disconnect that leaves the key of an emptied channel in place
RpConnectionManager_disconnect_keep_key(conns, websocket, channel_id) ==
  IF channel_id \in DOMAIN conns /\ websocket \in Range(conns[channel_id])
    THEN DictSet(conns, channel_id, ListRemove(conns[channel_id], websocket))
    ELSE conns

\* disconnect that takes the last socket off the channel's list when the one
\* it was given is not in it
RpConnectionManager_disconnect_pop_last(conns, websocket, channel_id) ==
  IF channel_id \in DOMAIN conns
    THEN LET list == conns[channel_id]
             rest == IF websocket \in Range(list) THEN ListRemove(list, websocket)
                                                  ELSE SubSeq(list, 1, Len(list) - 1)
         IN IF rest = <<>> THEN DictDel(conns, channel_id) ELSE DictSet(conns, channel_id, rest)
    ELSE conns

\* RpConnectionManager.disconnect: remove the socket from the channel's list
\* and delete the key when the list became empty; nothing when the channel or
\* the socket is not there
RpConnectionManager_disconnect(conns, websocket, channel_id) ==
  IF channel_id \in DOMAIN conns /\ websocket \in Range(conns[channel_id])
    THEN LET rest == ListRemove(conns[channel_id], websocket)
         IN IF rest = <<>> THEN DictDel(conns, channel_id) ELSE DictSet(conns, channel_id, rest)
    ELSE conns

\* crud.create_game_message_rp_style: the row that is inserted and read back
create_game_message_rp_style(table, game_id) ==
  [id |-> Len(table) + 1, game_id |-> game_id, sender_id |-> 0, timestamp |-> func_now]

\* schemas.RpChatMessageResponse.from_orm(row).model_dump_json(): the id as a
\* string and the timestamp in ISO format
RpChatMessageResponse_from_orm(row) ==
  [id |-> ToString(row.id), timestamp |-> isoformat(row.timestamp)]

\* a transport that hands a new frame to the peer ahead of the earlier ones
websocket_send_text_newest_first(sockets, connection, data) ==
  [sockets EXCEPT ![connection].frames = <<data>> \o @]

\* await connection.send_text(data) that returns: the frame is the next one
\* the peer is handed
websocket_send_text(sockets, connection, data) ==
  [sockets EXCEPT ![connection].frames = Append(@, data)]

\* the handler going on without looking at what the insert returned
message_created_unchecked(db_message) == TRUE

\* `if not db_message: raise HTTPException(status_code=500, ...)`
message_created(db_message) == db_message # <<>>

IdleRpRequest ==
  [pc |-> "idle", op |-> "none", channel_id |-> "", message_id |-> 0,
   json_message_to_send |-> <<>>,
   connections_to_broadcast |-> <<>>, next |-> 0, sent |-> {}, raised |-> {}]

NoRpResponse ==
  [op |-> "none", status |-> 0, channel_id |-> "", message_id |-> 0,
   connections_to_broadcast |-> <<>>, sent |-> {}, raised |-> {}]

\* POST /api/rp-chat/{channel_id}/messages up to the first awaited send of
\* broadcast_to_channel: channel check, insert, snapshot of the channel's list.
\* With nobody to send to, the handler returns in the same step.
send_rp_message(channel_id) ==
  /\ rp_request.pc = "idle"
  /\ IF channel_id # TEST_CHANNEL_ID_FOR_GDM_RP
       THEN \* 403 Channel not permitted
         /\ rp_response' = [NoRpResponse EXCEPT !.op = "send_rp_message", !.status = 403,
                              !.channel_id = channel_id]
         /\ UNCHANGED <<game_messages, rp_request>>
       ELSE
         \* the insert stores the row, or nothing is stored and nothing comes back
         \E stored \in BOOLEAN :
         LET db_message == create_game_message_rp_style(game_messages, PLACEHOLDER_GAME_ID_FOR_DB)
             connections_to_broadcast ==
               IF channel_id \in DOMAIN rp_active_connections
                 THEN rp_active_connections[channel_id] ELSE <<>>
         IN /\ game_messages' = IF stored THEN Append(game_messages, db_message) ELSE game_messages
            /\ IF ~message_created(IF stored THEN <<db_message>> ELSE <<>>)
                 THEN \* 500 Failed to create message in database
                      /\ rp_response' = [NoRpResponse EXCEPT !.op = "send_rp_message",
                                           !.status = 500, !.channel_id = channel_id]
                      /\ UNCHANGED rp_request
               ELSE IF connections_to_broadcast = <<>>
                 THEN /\ rp_response' = [NoRpResponse EXCEPT !.op = "send_rp_message",
                                           !.status = 201, !.channel_id = channel_id,
                                           !.message_id = db_message.id]
                      /\ UNCHANGED rp_request
                 ELSE /\ rp_request' = [pc |-> "broadcast", op |-> "send_rp_message",
                                        channel_id |-> channel_id, message_id |-> db_message.id,
                                        json_message_to_send |->
                                          <<RpChatMessageResponse_from_orm(db_message)>>,
                                        connections_to_broadcast |-> connections_to_broadcast,
                                        next |-> 1, sent |-> {}, raised |-> {}]
                      /\ UNCHANGED rp_response
  /\ UNCHANGED <<rp_active_connections, rp_ws>>
  /\ UNCHANGED <<dm_vars, ext_vars>>

\* broadcast loop without the try/except: the first exception ends the loop
\* and the request
broadcast_to_channel_send_uncaught ==
  /\ rp_request.pc = "broadcast"
  /\ LET connection == rp_request.connections_to_broadcast[rp_request.next]
         channel_id == rp_request.channel_id
     IN \E outcome \in send_outcomes(rp_ws[connection].state) :
          LET sent == IF outcome = "sent" THEN rp_request.sent \cup {connection}
                                          ELSE rp_request.sent
              raised == IF outcome = "raised" THEN rp_request.raised \cup {connection}
                                              ELSE rp_request.raised
          IN /\ UNCHANGED rp_active_connections
             /\ rp_ws' = IF outcome = "sent"
                           THEN websocket_send_text(rp_ws, connection,
                                                    rp_request.json_message_to_send[1])
                           ELSE rp_ws
             /\ IF outcome = "sent" /\ rp_request.next < Len(rp_request.connections_to_broadcast)
                  THEN /\ rp_request' = [rp_request EXCEPT !.next = @ + 1,
                                                           !.sent = sent, !.raised = raised]
                       /\ UNCHANGED rp_response
                  ELSE /\ rp_request' = IdleRpRequest
                       /\ rp_response' =
                            [op |-> rp_request.op,
                             status |-> IF outcome = "raised" THEN 500
                                        ELSE IF rp_request.op = "rp_dice_roll" THEN 200 ELSE 201,
                             channel_id |-> channel_id,
                             message_id |-> rp_request.message_id,
                             connections_to_broadcast |-> rp_request.connections_to_broadcast,
                             sent |-> sent, raised |-> raised]
  /\ UNCHANGED game_messages
  /\ UNCHANGED <<dm_vars, ext_vars>>

\* One iteration of the loop of broadcast_to_channel: await send_text on the
\* next connection of the snapshot; an exception is caught and the connection
\* is disconnected.  After the last connection the handler returns (201 for
\* a message, 200 for a roll).
broadcast_to_channel_send ==
  /\ rp_request.pc = "broadcast"
  /\ LET connection == rp_request.connections_to_broadcast[rp_request.next]
         channel_id == rp_request.channel_id
     IN \E outcome \in send_outcomes(rp_ws[connection].state) :
          LET sent == IF outcome = "sent" THEN rp_request.sent \cup {connection}
                                          ELSE rp_request.sent
              raised == IF outcome = "raised" THEN rp_request.raised \cup {connection}
                                              ELSE rp_request.raised
          IN /\ rp_active_connections' =
                  IF outcome = "raised"
                    THEN RpConnectionManager_disconnect(rp_active_connections, connection, channel_id)
                    ELSE rp_active_connections
             /\ rp_ws' = IF outcome = "sent"
                           THEN websocket_send_text(rp_ws, connection,
                                                    rp_request.json_message_to_send[1])
                           ELSE rp_ws
             /\ IF rp_request.next < Len(rp_request.connections_to_broadcast)
                  THEN /\ rp_request' = [rp_request EXCEPT !.next = @ + 1,
                                                           !.sent = sent, !.raised = raised]
                       /\ UNCHANGED rp_response
                  ELSE /\ rp_request' = IdleRpRequest
                       /\ rp_response' =
                            [op |-> rp_request.op,
                             status |-> IF rp_request.op = "rp_dice_roll" THEN 200 ELSE 201,
                             channel_id |-> channel_id,
                             message_id |-> rp_request.message_id,
                             connections_to_broadcast |-> rp_request.connections_to_broadcast,
                             sent |-> sent, raised |-> raised]
  /\ UNCHANGED game_messages
  /\ UNCHANGED <<dm_vars, ext_vars>>

\* ------------------------------------------- rp_chat.websocket_rp_chat_endpoint
\* A client opens /ws/{channel_id}; the endpoint registers it under whatever
\* channel id the path carries.  Sockets are numbered in connect order.
websocket_rp_chat_endpoint_connect(websocket, channel_id) ==
  /\ rp_ws[websocket].state = "new"
  /\ \A w \in RpSockets : w < websocket => rp_ws[w].state # "new"
  /\ rp_ws' = [rp_ws EXCEPT ![websocket] = [state |-> "open", channel_id |-> channel_id,
                                             frames |-> <<>>]]
  /\ rp_active_connections' = RpConnectionManager_connect(rp_active_connections, websocket, channel_id)
  /\ UNCHANGED <<game_messages, rp_request, rp_response>>
  /\ UNCHANGED <<dm_vars, ext_vars>>

\* The peer of an open socket goes away; the receive loop has not seen it yet.
rp_transport_lost(websocket) ==
  /\ rp_ws[websocket].state = "open"
  /\ rp_ws' = [rp_ws EXCEPT ![websocket].state = "broken"]
  /\ UNCHANGED <<rp_active_connections, game_messages, rp_request, rp_response>>
  /\ UNCHANGED <<dm_vars, ext_vars>>

\* receive_text raises (WebSocketDisconnect or another exception): both
\* except branches call rp_chat_manager.disconnect(websocket, channel_id).
websocket_rp_chat_endpoint_exit(websocket) ==
  /\ rp_ws[websocket].state \in {"open", "broken"}
  /\ rp_ws' = [rp_ws EXCEPT ![websocket].state = "closed"]
  /\ rp_active_connections' =
       RpConnectionManager_disconnect(rp_active_connections, websocket, rp_ws[websocket].channel_id)
  /\ UNCHANGED <<game_messages, rp_request, rp_response>>
  /\ UNCHANGED <<dm_vars, ext_vars>>

\* ----------------------------------------------------- tasks: digest sender
\* a < b on Python datetimes: an aware and a naive one do not compare
\* (TypeError); aware ones compare by the instant they denote
datetime_comparable(a, b) == (a.tz = "naive") <=> (b.tz = "naive")
datetime_lt(a, b) == utc_instant(a) < utc_instant(b)

\* _scheduled_digest_sender_task: the users the query selects, in id order
users_for_digest ==
  SelectSeq([i \in 1..NumUsers |-> i],
            LAMBDA u : users[u].email_notifications_enabled /\ users[u].email # "")

\* _scheduled_digest_sender_task: the test in front of `continue`
\*   user.last_digest_sent_at and
\*   now(utc) < user.last_digest_sent_at + timedelta(hours=DIGEST_PERIOD_HOURS - 1)
digest_skip_check(user) ==
  IF user.last_digest_sent_at = NoDatetime THEN "send"
  ELSE LET limit == datetime_add_minutes(user.last_digest_sent_at, (DIGEST_PERIOD_HOURS - 1) * 60)
       IN IF ~datetime_comparable(datetime_now_utc, limit) THEN "raised"
          ELSE IF datetime_lt(datetime_now_utc, limit) THEN "skip" ELSE "send"

\* _send_digests_for_user: since_time
since_time(user) ==
  IF user.last_digest_sent_at = NoDatetime
    THEN datetime_add_minutes(datetime_now_utc, 0 - DIGEST_PERIOD_HOURS * 60)
    ELSE user.last_digest_sent_at

\* the query without the filter on the timestamp
get_notifications_for_digest_no_since(table, user_id, since, excluded_types, included_types) ==
  SelectSeq(table,
            LAMBDA n : /\ n.user_id = user_id
                       /\ n.emailed_in_digest = FALSE
                       /\ n.type \notin excluded_types
                       /\ n.type \in included_types)

\* the query without the filter on the recipient
get_notifications_for_digest_any_user(table, user_id, since, excluded_types, included_types) ==
  SelectSeq(table,
            LAMBDA n : /\ n.emailed_in_digest = FALSE
                       /\ n.type \notin excluded_types
                       /\ n.type \in included_types
                       /\ utc_instant(n.timestamp) > utc_instant(since))

\* crud.get_notifications_for_digest: the rows of the user that are not yet
\* emailed, of an included and not of an excluded type, newer than since; the
\* database compares the timestamps; the rows come in timestamp order, which
\* is the order of their ids
get_notifications_for_digest(table, user_id, since, excluded_types, included_types) ==
  SelectSeq(table,
            LAMBDA n : /\ n.user_id = user_id
                       /\ n.emailed_in_digest = FALSE
                       /\ n.type \notin excluded_types
                       /\ n.type \in included_types
                       /\ utc_instant(n.timestamp) > utc_instant(since))

\* _group_notifications_for_digest: per digest type, the notifications of it
group_notifications_for_digest(notifs) ==
  [t \in DIGEST_NOTIFICATION_TYPES |-> SelectSeq(notifs, LAMBDA n : n.type = t)]

\* marking that clears the flag of the rows that are not in the list
mark_notifications_as_emailed_in_digest_only(table, notification_ids) ==
  [i \in DOMAIN table |-> [table[i] EXCEPT !.emailed_in_digest = (table[i].id \in notification_ids)]]

\* crud.mark_notifications_as_emailed_in_digest
mark_notifications_as_emailed_in_digest(table, notification_ids) ==
  [i \in DOMAIN table |->
     IF table[i].id \in notification_ids
       THEN [table[i] EXCEPT !.emailed_in_digest = TRUE] ELSE table[i]]

\* crud.mark_notification_as_read: the row with the id that belongs to the
\* user, if there is one, gets is_read = True
mark_notification_as_read(table, notification_id, user_id) ==
  [i \in DOMAIN table |->
     IF table[i].id = notification_id /\ table[i].user_id = user_id
       THEN [table[i] EXCEPT !.is_read = TRUE] ELSE table[i]]

\* crud.mark_all_notifications_as_read_for_user: the unread rows of the user
\* get is_read = True
mark_all_notifications_as_read_for_user(table, user_id) ==
  [i \in DOMAIN table |->
     IF table[i].user_id = user_id /\ table[i].is_read = FALSE
       THEN [table[i] EXCEPT !.is_read = TRUE] ELSE table[i]]

\* POST /api/notifications/{notification_id}/read by current_user (404 when
\* the user has no such notification)
mark_notification_read(notification_id, current_user_id) ==
  /\ notifications' = mark_notification_as_read(notifications, notification_id, current_user_id)
  /\ UNCHANGED <<now, db_session_tz, users, direct_messages, dm_notification_cooldowns,
                 active_connections, dm_ws, email_tasks, email_results, dm_response>>
  /\ UNCHANGED <<rp_vars, rp_roll, digest_tasks, dm_workers>>

\* POST /api/notifications/mark-all-read by current_user
mark_all_my_notifications_read(current_user_id) ==
  /\ notifications' = mark_all_notifications_as_read_for_user(notifications, current_user_id)
  /\ UNCHANGED <<now, db_session_tz, users, direct_messages, dm_notification_cooldowns,
                 active_connections, dm_ws, email_tasks, email_results, dm_response>>
  /\ UNCHANGED <<rp_vars, rp_roll, digest_tasks, dm_workers>>

\* crud.update_user_last_digest_sent_time
update_user_last_digest_sent_time(table, user_id) ==
  IF user_id \in DOMAIN table
    THEN [table EXCEPT ![user_id].last_digest_sent_at = func_now] ELSE table

NewDigestTask ==
  [pc |-> "new", users_for_digest |-> <<>>, notifications_to_send |-> <<>>, last |-> <<>>]

\* what a run did for the user it went through last
DigestLogEntry(user_id, outcome, notification_ids) ==
  [user_id |-> user_id, outcome |-> outcome, notification_ids |-> notification_ids]

\* the run is through with the user at the head of its list
DigestTaskNext(task, outcome, notification_ids) ==
  LET rest == Tail(task.users_for_digest)
  IN [task EXCEPT !.pc = IF rest = <<>> THEN "finished" ELSE "loop",
                  !.users_for_digest = rest,
                  !.notifications_to_send = <<>>,
                  !.last = <<DigestLogEntry(Head(task.users_for_digest), outcome,
                                            notification_ids)>>]

\* an exception leaves _scheduled_digest_sender_task
DigestTaskAbort(task, outcome) ==
  [task EXCEPT !.pc = "aborted",
               !.last = <<DigestLogEntry(Head(task.users_for_digest), outcome, {})>>]

\* Somewhere crud.create_notification is called for a user (for "new_dm" that
\* is send_direct_message).
crud_create_notification(user_id, type) ==
  /\ notifications' = Append(notifications, create_notification(notifications, user_id, type))
  /\ UNCHANGED <<now, db_session_tz, users, direct_messages, dm_notification_cooldowns,
                 active_connections, dm_ws, email_tasks, email_results, dm_response>>
  /\ UNCHANGED <<rp_vars, rp_roll, digest_tasks, dm_workers>>

\* POST /api/tasks/send-digests: the background task starts and queries the
\* users to go through.  Runs are numbered in the order they start.
trigger_send_notification_digests_endpoint(run) ==
  /\ digest_tasks[run].pc = "new"
  /\ \A r \in DigestRuns : r < run => digest_tasks[r].pc # "new"
  /\ digest_tasks' =
       [digest_tasks EXCEPT ![run] =
          [NewDigestTask EXCEPT !.pc = IF users_for_digest = <<>> THEN "finished" ELSE "loop",
                                !.users_for_digest = users_for_digest]]
  /\ UNCHANGED <<dm_vars, rp_vars, rp_roll, dm_workers>>

\* One pass of the loop of _scheduled_digest_sender_task up to the awaited
\* send of _send_digests_for_user: skip check, fetch, grouping.  The skip
\* check, the query and the grouping are outside every try block.
scheduled_digest_sender_task_step(run) ==
  /\ digest_tasks[run].pc = "loop"
  /\ LET task == digest_tasks[run]
         user_id == Head(task.users_for_digest)
         user == users[user_id]
         check == digest_skip_check(user)
         notifications_to_send ==
           get_notifications_for_digest(notifications, user_id, since_time(user),
                                        EXCLUDED_FROM_DIGEST_TYPES, DIGEST_NOTIFICATION_TYPES)
         grouped_notifications == group_notifications_for_digest(notifications_to_send)
         has_content_for_digest ==
           \E t \in DIGEST_NOTIFICATION_TYPES : Len(grouped_notifications[t]) > 0
     IN \E query \in (IF check = "send" THEN {"ok", "raised"} ELSE {"ok"}) :
          digest_tasks' =
            [digest_tasks EXCEPT ![run] =
               CASE check = "raised" -> DigestTaskAbort(task, "skip_check_raised")
                 [] check = "skip" -> DigestTaskNext(task, "skipped", {})
                 [] check = "send" /\ query = "raised" -> DigestTaskAbort(task, "fetch_raised")
                 [] check = "send" /\ query = "ok" /\ notifications_to_send = <<>> ->
                      DigestTaskNext(task, "no_notifications", {})
                 [] check = "send" /\ query = "ok" /\ notifications_to_send # <<>>
                      /\ ~has_content_for_digest ->
                      DigestTaskNext(task, "no_content", {})
                 [] OTHER ->
                      [task EXCEPT !.pc = "sending",
                                   !.notifications_to_send =
                                      [i \in DOMAIN notifications_to_send |->
                                         notifications_to_send[i].id]]]
  /\ UNCHANGED <<dm_vars, rp_vars, rp_roll, dm_workers>>

\* The awaited send_email_notification of _send_digests_for_user comes back:
\* "failed" is fm_instance.send_message raising, which send_email_notification
\* catches itself.  Then the notifications are marked, last_digest_sent_at is
\* set and the loop goes on.
send_digests_for_user_send(run, outcome) ==
  /\ digest_tasks[run].pc = "sending"
  /\ LET task == digest_tasks[run]
         user_id == Head(task.users_for_digest)
         notification_ids_sent == Range(task.notifications_to_send)
     IN /\ notifications' = mark_notifications_as_emailed_in_digest(notifications, notification_ids_sent)
        /\ users' = update_user_last_digest_sent_time(users, user_id)
        /\ digest_tasks' = [digest_tasks EXCEPT ![run] = DigestTaskNext(task, outcome, notification_ids_sent)]
  /\ UNCHANGED <<now, db_session_tz, direct_messages, dm_notification_cooldowns,
                 active_connections, dm_ws, email_tasks, email_results, dm_response>>
  /\ UNCHANGED <<rp_vars, rp_roll, dm_workers>>

\* ------------------------------------------------ crud: dice notation parser
\* A notation is the sequence of its characters.
IsSpace(c) == c = " "
IsDigit(c) == c \in {"0", "1", "2", "3", "4", "5", "6", "7", "8", "9"}
IsDigits(str) == str # <<>> /\ \A i \in DOMAIN str : IsDigit(str[i])

\* str.strip()
RECURSIVE lstrip(_)
lstrip(str) == IF str # <<>> /\ IsSpace(Head(str)) THEN lstrip(Tail(str)) ELSE str
RECURSIVE rstrip(_)
rstrip(str) ==
  IF str # <<>> /\ IsSpace(str[Len(str)]) THEN rstrip(SubSeq(str, 1, Len(str) - 1)) ELSE str
strip(str) == rstrip(lstrip(str))

\* str.lower() on the letters that occur
lower(str) == [i \in DOMAIN str |-> IF str[i] = "D" THEN "d" ELSE str[i]]

\* int(str) of a string of digits
DigitValue(c) ==
  CASE c = "0" -> 0 [] c = "1" -> 1 [] c = "2" -> 2 [] c = "3" -> 3 [] c = "4" -> 4
    [] c = "5" -> 5 [] c = "6" -> 6 [] c = "7" -> 7 [] c = "8" -> 8 [] c = "9" -> 9
RECURSIVE int(_)
int(str) ==
  IF str = <<>> THEN 0
  ELSE 10 * int(SubSeq(str, 1, Len(str) - 1)) + DigitValue(str[Len(str)])

\* re.match(r"^(\d+)d(\d+)(?:([+-])(\d+))?$", str): the groups of the match,
\* or nothing.  Digits are neither "d" nor a sign, so the "d" of the match is
\* the first one and the sign, if any, the first sign after it.
dice_match(str) ==
  LET ds == {i \in DOMAIN str : str[i] = "d"}
  IN IF ds = {} THEN <<>>
     ELSE LET d == CHOOSE i \in ds : \A j \in ds : i <= j
              count == SubSeq(str, 1, d - 1)
              rest == SubSeq(str, d + 1, Len(str))
              signs == {i \in DOMAIN rest : rest[i] \in {"+", "-"}}
          IN IF ~IsDigits(count) THEN <<>>
             ELSE IF signs = {}
               THEN IF IsDigits(rest)
                      THEN <<[num_dice |-> count, num_sides |-> rest, sign |-> "", modifier |-> <<>>]>>
                      ELSE <<>>
               ELSE LET k == CHOOSE i \in signs : \A j \in signs : i <= j
                        sides == SubSeq(rest, 1, k - 1)
                        modifier == SubSeq(rest, k + 1, Len(rest))
                    IN IF IsDigits(sides) /\ IsDigits(modifier)
                         THEN <<[num_dice |-> count, num_sides |-> sides, sign |-> rest[k],
                                 modifier |-> modifier]>>
                         ELSE <<>>

\* sum(rolls)
RECURSIVE sum(_)
sum(rolls) == IF rolls = <<>> THEN 0 ELSE Head(rolls) + sum(Tail(rolls))

\* what [random.randint(1, num_sides) for _ in range(num_dice)] can give for
\* the notation: every list of num_dice values of 1..num_sides
random_rolls(notation) ==
  LET match == dice_match(lower(strip(notation)))
  IN IF match = <<>> THEN {<<>>}
     ELSE LET num_dice == int(match[1].num_dice)
              num_sides == int(match[1].num_sides)
          IN IF num_dice <= 0 \/ num_sides <= 0 \/ num_dice > 100 THEN {<<>>}
             ELSE [1..num_dice -> 1..num_sides]

\* the parser without the test on the number of dice and of sides
parse_dice_notation_for_rp_unchecked(notation, rolls) ==
  LET match == dice_match(lower(strip(notation)))
  IN IF match = <<>> THEN <<>>
     ELSE <<[num_dice |-> int(match[1].num_dice), num_sides |-> int(match[1].num_sides),
             rolls |-> rolls, total |-> sum(rolls)]>>

\* crud.parse_dice_notation_for_rp, with the values the random generator
\* gave: nothing for no match or a count or sides out of range; the total is
\* the sum of the rolls
parse_dice_notation_for_rp(notation, rolls) ==
  LET match == dice_match(lower(strip(notation)))
  IN IF match = <<>> THEN <<>>
     ELSE LET num_dice == int(match[1].num_dice)
              num_sides == int(match[1].num_sides)
          IN IF num_dice <= 0 \/ num_sides <= 0 \/ num_dice > 100 THEN <<>>
             ELSE <<[num_dice |-> num_dice, num_sides |-> num_sides, rolls |-> rolls,
                     total |-> sum(rolls)]>>

\* The notations that are rolled.
Notations ==
  { <<"3", "d", "6", "+", "2">>, <<"2", "d", "4", "-", "1">>, <<"2", "d", "6">>,
    <<" ", "2", "D", "4", " ">>, <<"1", "0", "0", "d", "1">>,
    <<"0", "d", "6">>, <<"1", "0", "1", "d", "6">>, <<"d", "6">>, <<"3", "d", "0">>,
    <<"3", "d">>, <<"3", "d", "6", "+">>, <<"3", "x", "6">>, <<>> }

NoRoll == [notation |-> <<>>, parsed_roll |-> <<>>]

\* crud.parse_dice_notation_for_rp is called on a notation.
parse_dice_notation_for_rp_call(notation) ==
  /\ \E rolls \in random_rolls(notation) :
       rp_roll' = [notation |-> notation,
                   parsed_roll |-> parse_dice_notation_for_rp(notation, rolls)]
  /\ UNCHANGED <<dm_vars, rp_vars, digest_tasks, dm_workers>>

\* POST /api/rp-chat/{channel_id}/roll up to the first awaited send of
\* broadcast_to_channel: channel check, parser, insert of the system message,
\* snapshot of the channel's list.
rp_dice_roll(channel_id, notation) ==
  /\ rp_request.pc = "idle"
  /\ IF channel_id # TEST_CHANNEL_ID_FOR_GDM_RP
       THEN \* 403 Channel not permitted
         /\ rp_response' = [NoRpResponse EXCEPT !.op = "rp_dice_roll", !.status = 403,
                              !.channel_id = channel_id]
         /\ UNCHANGED <<game_messages, rp_request, rp_roll>>
       ELSE
         \E rolls \in random_rolls(notation), stored \in BOOLEAN :
           LET parsed_roll == parse_dice_notation_for_rp(notation, rolls)
               db_system_message ==
                 create_game_message_rp_style(game_messages, PLACEHOLDER_GAME_ID_FOR_DB)
               connections_to_broadcast ==
                 IF channel_id \in DOMAIN rp_active_connections
                   THEN rp_active_connections[channel_id] ELSE <<>>
           IN /\ rp_roll' = [notation |-> notation, parsed_roll |-> parsed_roll]
              /\ IF parsed_roll = <<>>
                   THEN \* 400 Invalid dice notation
                     /\ rp_response' = [NoRpResponse EXCEPT !.op = "rp_dice_roll",
                                          !.status = 400, !.channel_id = channel_id]
                     /\ UNCHANGED <<game_messages, rp_request>>
                   ELSE
                     /\ game_messages' = IF stored THEN Append(game_messages, db_system_message)
                                                    ELSE game_messages
                     /\ IF ~message_created(IF stored THEN <<db_system_message>> ELSE <<>>)
                          THEN \* 500 Failed to save dice roll message to DB
                               /\ rp_response' = [NoRpResponse EXCEPT !.op = "rp_dice_roll",
                                                    !.status = 500, !.channel_id = channel_id]
                               /\ UNCHANGED rp_request
                        ELSE IF connections_to_broadcast = <<>>
                          THEN /\ rp_response' = [NoRpResponse EXCEPT !.op = "rp_dice_roll",
                                                    !.status = 200, !.channel_id = channel_id,
                                                    !.message_id = db_system_message.id]
                               /\ UNCHANGED rp_request
                          ELSE /\ rp_request' = [pc |-> "broadcast", op |-> "rp_dice_roll",
                                                 channel_id |-> channel_id,
                                                 message_id |-> db_system_message.id,
                                                 json_message_to_send |->
                                                   <<RpChatMessageResponse_from_orm(db_system_message)>>,
                                                 connections_to_broadcast |-> connections_to_broadcast,
                                                 next |-> 1, sent |-> {}, raised |-> {}]
                               /\ UNCHANGED rp_response
  /\ UNCHANGED <<rp_active_connections, rp_ws>>
  /\ UNCHANGED <<dm_vars, digest_tasks, dm_workers>>

\* ------------------------------ send_direct_message in several processes
\* The application served by several worker processes: each has its own event
\* loop and its own database session on the one database, so the statements
\* of two requests interleave.  The sockets of the receivers are not in these
\* processes.
Workers == 1..NumWorkers
IdleWorker == [pc |-> "idle", original_sender_id |-> 0, receiver_id |-> 0, cooldown_record |-> 0]

\* send_direct_message in worker p up to the query of
\* crud.upsert_dm_notification_cooldown (crud.py:250): message, notification,
\* cool-down check, add_task, and the query for the row of the pair.
send_direct_message_in_worker(p, current_user_id, receiver_user_id) ==
  /\ dm_workers[p].pc = "idle"
  /\ current_user_id # receiver_user_id
  /\ get_user_by_id(receiver_user_id) # <<>>
  /\ LET receiver_user == users[receiver_user_id]
         wants_email == receiver_user.email_notifications_enabled /\ receiver_user.email # ""
         can_send == /\ wants_email
                     /\ ~is_receiver_online_ws(EmptyDict, receiver_user_id)
                     /\ can_send_email(dm_notification_cooldowns, current_user_id, receiver_user_id)
     IN /\ direct_messages' = Append(direct_messages,
                                      create_direct_message(direct_messages, current_user_id,
                                                            receiver_user_id))
        /\ notifications' = Append(notifications,
                                    create_notification(notifications, receiver_user_id, "new_dm"))
        /\ dm_workers' =
             IF can_send
               THEN [dm_workers EXCEPT ![p] =
                       [pc |-> "upsert", original_sender_id |-> current_user_id,
                        receiver_id |-> receiver_user_id,
                        cooldown_record |->
                          get_dm_notification_cooldown(dm_notification_cooldowns,
                                                       current_user_id, receiver_user_id)]]
               ELSE dm_workers
  /\ UNCHANGED <<now, db_session_tz, users, dm_notification_cooldowns, active_connections,
                 dm_ws, email_tasks, email_results, dm_response>>
  /\ UNCHANGED <<rp_vars, rp_roll, digest_tasks>>

\* The rest of crud.upsert_dm_notification_cooldown in worker p (crud.py:251-
\* 258): update of the row found or insert of a new one, commit; the handler
\* returns and its background e-mail is due.
send_direct_message_in_worker_commit(p) ==
  /\ dm_workers[p].pc = "upsert"
  /\ dm_notification_cooldowns' =
       upsert_dm_notification_cooldown_write(dm_notification_cooldowns,
                                             dm_workers[p].cooldown_record,
                                             dm_workers[p].original_sender_id,
                                             dm_workers[p].receiver_id)
  /\ email_tasks' = email_tasks \cup {[original_sender_id |-> dm_workers[p].original_sender_id,
                                       receiver_id |-> dm_workers[p].receiver_id,
                                       scheduled_at |-> now]}
  /\ dm_workers' = [dm_workers EXCEPT ![p] = IdleWorker]
  /\ UNCHANGED <<now, db_session_tz, users, direct_messages, notifications,
                 active_connections, dm_ws, email_results, dm_response>>
  /\ UNCHANGED <<rp_vars, rp_roll, digest_tasks>>

\* ---------------------------------------------------------------- initial
Init ==
  /\ now = 0
  /\ db_session_tz \in DbTimezones
  /\ users = [u \in Users |-> [email_notifications_enabled |-> TRUE, email |-> "user@haven",
                              last_digest_sent_at |-> NoDatetime]]
  /\ direct_messages = <<>>
  /\ notifications = <<>>
  /\ dm_notification_cooldowns = <<>>
  /\ active_connections = EmptyDict
  /\ dm_ws = [w \in DmSockets |-> [state |-> "new", user_id |-> 0]]
  /\ email_tasks = {}
  /\ email_results = [p \in Users \X Users |-> [scheduled_at |-> 0, outcome |-> "none"]]
  /\ dm_response = NoDmResponse
  /\ rp_active_connections = EmptyDict
  /\ rp_ws = [w \in RpSockets |-> [state |-> "new", channel_id |-> "", frames |-> <<>>]]
  /\ game_messages = <<>>
  /\ rp_request = IdleRpRequest
  /\ rp_response = NoRpResponse
  /\ rp_roll = NoRoll
  /\ digest_tasks = [r \in DigestRuns |-> NewDigestTask]
  /\ dm_workers = [p \in Workers |-> IdleWorker]

\* Where the clock stands still the time zone of the database plays no part.
InitDm == Init /\ db_session_tz = [tz |-> "aware", utcoffset |-> 0]

\* The instants at which the clock is looked at: the multiples of the cool-down
\* window and the minute before each.
Instants == {t \in 0..MaxTime : t % DM_EMAIL_COOLDOWN_MINUTES \in {0, 14}}

\* Presence and push of direct messages; the clock stands still.
NextDm ==
  \/ \E s \in Users, r \in Users \cup {UnknownUserId} :
       Len(direct_messages) < MaxDms /\ send_direct_message(s, r)
  \/ \E t \in email_tasks, o \in {"sent", "failed"} : send_email_notification(t, o)
  \/ \E w \in DmSockets, u \in Users \cup {0} : websocket_dm_endpoint_connect(w, u)
  \/ \E w \in DmSockets : dm_transport_lost(w)
  \/ \E w \in DmSockets : websocket_dm_endpoint_exit(w)

SpecDm == InitDm /\ [][NextDm]_vars

\* Presence against the cool-down as time passes: who is online decides
\* whether the cool-down is looked at.  The queued e-mails are not run here;
\* running one touches only email_tasks and email_results.
NextCooldown ==
  \/ \E s \in Users : \E r \in Users \ {s} :
       Len(direct_messages) < MaxCooldownDms /\ send_direct_message(s, r)
  \/ \E w \in 1..MaxCooldownSockets, u \in Users : websocket_dm_endpoint_connect(w, u)
  \/ \E w \in 1..MaxCooldownSockets : websocket_dm_endpoint_exit(w)
  \/ \E t \in Instants : Tick(t)

SpecCooldown == Init /\ [][NextCooldown]_vars

\* The e-mail fallback for receivers who are offline throughout: messages,
\* the background e-mails and their outcomes as time passes.
NextEmail ==
  \/ \E s \in Users : \E r \in Users \ {s} :
       Len(direct_messages) < MaxCooldownDms /\ send_direct_message(s, r)
  \/ \E t \in email_tasks, o \in {"sent", "failed"} : send_email_notification(t, o)
  \/ \E t \in Instants : Tick(t)

SpecEmail == Init /\ [][NextEmail]_vars

\* Direct messages to offline receivers, handled by several server processes.
NextWorkers ==
  \/ \E p \in Workers : \E s \in Users : \E r \in Users \ {s} :
       Len(direct_messages) < MaxWorkerDms /\ send_direct_message_in_worker(p, s, r)
  \/ \E p \in Workers : send_direct_message_in_worker_commit(p)
  \/ \E t \in Instants : Tick(t)

SpecWorkers == Init /\ [][NextWorkers]_vars

\* The digest task sees naive and aware timestamps; the offset of an aware
\* one plays no part in it.
InitDigest == Init /\ db_session_tz.utcoffset = 0

\* The instants at which the digest clock is looked at, in minutes: the start,
\* and the hour before and the hour after every full period of 24 hours.
DigestInstants ==
  {0} \cup {h * 60 : h \in {x \in (DIGEST_PERIOD_HOURS - 1)..MaxDigestHours :
                              x % DIGEST_PERIOD_HOURS \in {1, DIGEST_PERIOD_HOURS - 1}}}

\* one run of the digest task after the other
DigestRunsOver(run) ==
  \A r \in DigestRuns : r < run => digest_tasks[r].pc \in {"finished", "aborted"}

\* The digest task, run after run, the notifications it works on and the clock.
NextDigest ==
  \/ \E u \in Users, t \in NotificationTypes :
       Len(notifications) < MaxDigestNotifications /\ crud_create_notification(u, t)
  \/ \E r \in DigestRuns : DigestRunsOver(r) /\ trigger_send_notification_digests_endpoint(r)
  \/ \E r \in DigestRuns : scheduled_digest_sender_task_step(r)
  \/ \E r \in DigestRuns, o \in {"sent", "failed"} : send_digests_for_user_send(r, o)
  \/ \E t \in DigestInstants : Tick(t)

SpecDigest == InitDigest /\ [][NextDigest]_vars

\* the instants of the selection runs: the start and the last hour
SelectInstants == {0, MaxDigestHours * 60}

\* What a digest run selects out of the notifications table.
NextSelect ==
  \/ \E u \in Users, t \in NotificationTypes :
       Len(notifications) < MaxSelectNotifications /\ crud_create_notification(u, t)
  \/ \E r \in 1..MaxSelectRuns : DigestRunsOver(r) /\ trigger_send_notification_digests_endpoint(r)
  \/ \E r \in 1..MaxSelectRuns : scheduled_digest_sender_task_step(r)
  \/ \E r \in 1..MaxSelectRuns, o \in {"sent", "failed"} : send_digests_for_user_send(r, o)
  \/ \E t \in SelectInstants : Tick(t)

SpecSelect == InitDigest /\ [][NextSelect]_vars

\* Roleplay chat: subscriptions and broadcasts of one channel request at a time.
NextRp ==
  \/ \E c \in Channels : Len(game_messages) < MaxRpMessages /\ send_rp_message(c)
  \/ broadcast_to_channel_send
  \/ \E w \in RpSockets, c \in Channels : websocket_rp_chat_endpoint_connect(w, c)
  \/ \E w \in RpSockets : rp_transport_lost(w)
  \/ \E w \in RpSockets : websocket_rp_chat_endpoint_exit(w)

SpecRp == InitDm /\ [][NextRp]_vars

\* The parser of dice notations on its own.
NextParse == \E n \in Notations : parse_dice_notation_for_rp_call(n)

SpecParse == InitDm /\ [][NextParse]_vars

\* the notations of the roll requests
RollRequestNotations == {n \in Notations : Cardinality(random_rolls(n)) <= MaxRollOutcomes}

\* Dice rolls in the roleplay chat.
NextDice ==
  \/ \E c \in Channels, n \in RollRequestNotations :
       Len(game_messages) < MaxDiceMessages /\ rp_dice_roll(c, n)
  \/ broadcast_to_channel_send
  \/ \E w \in 1..MaxDiceSockets, c \in Channels : websocket_rp_chat_endpoint_connect(w, c)
  \/ \E w \in 1..MaxDiceSockets : websocket_rp_chat_endpoint_exit(w)

SpecDice == InitDm /\ [][NextDice]_vars

\* the notations of the roll requests next to direct messages: a valid and an
\* invalid one
PushNotations == {<<"1", "0", "0", "d", "1">>, <<"0", "d", "6">>}

\* the instants of the pushes: the start and the last minute
PushInstants == {0, MaxTime}

\* Everything that pushes to a socket: direct messages of user 1 to user 2,
\* roleplay messages and dice rolls, as time passes.  Every transport stays up.
NextPush ==
  \/ Len(direct_messages) < MaxPushMessages /\ send_direct_message(1, 2)
  \/ \E w \in 1..MaxPushSockets : websocket_dm_endpoint_connect(w, 2)
  \/ Len(game_messages) < MaxPushMessages /\ send_rp_message(TEST_CHANNEL_ID_FOR_GDM_RP)
  \/ \E n \in PushNotations :
       Len(game_messages) < MaxPushMessages /\ rp_dice_roll(TEST_CHANNEL_ID_FOR_GDM_RP, n)
  \/ broadcast_to_channel_send
  \/ \E w \in 1..MaxPushSockets :
       websocket_rp_chat_endpoint_connect(w, TEST_CHANNEL_ID_FOR_GDM_RP)
  \/ \E t \in PushInstants : Tick(t)

SpecPush == Init /\ [][NextPush]_vars

\* Both registries: the sockets of user 1 come and go on /ws/dm and sockets
\* come and go on the roleplay channel, and a broadcast unregisters the sockets
\* it cannot send to.
NextRegistry ==
  \/ \E w \in 1..MaxRegistrySockets : websocket_dm_endpoint_connect(w, 1)
  \/ \E w \in 1..MaxRegistrySockets : websocket_dm_endpoint_exit(w)
  \/ \E w \in 1..MaxRegistrySockets :
       websocket_rp_chat_endpoint_connect(w, TEST_CHANNEL_ID_FOR_GDM_RP)
  \/ \E w \in 1..MaxRegistrySockets : rp_transport_lost(w)
  \/ \E w \in 1..MaxRegistrySockets : websocket_rp_chat_endpoint_exit(w)
  \/ Len(game_messages) < MaxRegistryMessages /\ send_rp_message(TEST_CHANNEL_ID_FOR_GDM_RP)
  \/ broadcast_to_channel_send

SpecRegistry == InitDm /\ [][NextRegistry]_vars

\* the users whose notifications are followed
FlagUsers == {1, 2}

\* The life of a notification: created for a game event or by a direct
\* message of user 1 to user 2, marked read by its user, folded into a digest.
NextFlags ==
  \/ \E u \in FlagUsers :
       Len(notifications) < MaxFlagNotifications /\ crud_create_notification(u, "new_game_post")
  \/ Len(notifications) < MaxFlagNotifications /\ send_direct_message(1, 2)
  \/ \E u \in FlagUsers : \E n \in 1..MaxFlagNotifications : mark_notification_read(n, u)
  \/ \E u \in FlagUsers : mark_all_my_notifications_read(u)
  \/ \E r \in 1..MaxSelectRuns : DigestRunsOver(r) /\ trigger_send_notification_digests_endpoint(r)
  \/ \E r \in 1..MaxSelectRuns : scheduled_digest_sender_task_step(r)
  \/ \E r \in 1..MaxSelectRuns, o \in {"sent", "failed"} : send_digests_for_user_send(r, o)

SpecFlags == InitDm /\ [][NextFlags]_vars

\* the instants of the recurring digest: the start and the ends of the
\* periods after it; a period is as long as the skip test lets a user wait
RecurInstants == {k * (DIGEST_PERIOD_HOURS - 1) * 60 : k \in 0..MaxRecurPeriods}

\* The clock of the model has minutes and the database's has microseconds: a
\* notification of user_id in the minute of the user's last_digest_sent_at is
\* one created while that digest was being sent (awaited at tasks.py:115),
\* and one created after the update has a timestamp of a later minute.
timestamp_resolved(user_id) ==
  \/ users[user_id].last_digest_sent_at = NoDatetime
  \/ utc_instant(users[user_id].last_digest_sent_at) < now
  \/ \E r \in DigestRuns : /\ digest_tasks[r].pc = "sending"
                           /\ Head(digest_tasks[r].users_for_digest) = user_id

\* The scheduler of the digest (tasks.py:166: "In production,
\* _scheduled_digest_sender_task would be run by a scheduler"): when the runs
\* it started are over it starts over at the instant t, at once or when the
\* period has passed.
digest_scheduler_next_round(t) ==
  /\ \A r \in DigestRuns : digest_tasks[r].pc \in {"finished", "aborted"}
  /\ now <= t
  /\ t <= now + (DIGEST_PERIOD_HOURS - 1) * 60
  /\ now' = t
  /\ digest_tasks' = [r \in DigestRuns |-> NewDigestTask]
  /\ UNCHANGED <<db_session_tz, users, direct_messages, notifications,
                 dm_notification_cooldowns, active_connections, dm_ws,
                 email_tasks, email_results, dm_response>>
  /\ UNCHANGED <<rp_vars, rp_roll, dm_workers>>

\* a pass of a run to which the database answers
digest_step_answered(run) ==
  scheduled_digest_sender_task_step(run) /\ digest_tasks'[run].pc # "aborted"

\* The digest recurring for ever, one run after the other, the database
\* answering and every e-mail going out, while digest notifications are
\* created and the periods pass.
NextRecur ==
  \/ \E u \in FlagUsers :
       /\ Len(notifications) < MaxRecurNotifications
       /\ timestamp_resolved(u)
       /\ crud_create_notification(u, "new_game_post")
  \/ \E r \in DigestRuns : DigestRunsOver(r) /\ trigger_send_notification_digests_endpoint(r)
  \/ \E r \in DigestRuns : digest_step_answered(r)
  \/ \E r \in DigestRuns : send_digests_for_user_send(r, "sent")
  \/ \E t \in RecurInstants : digest_scheduler_next_round(t)

\* the runs recur, the event loop goes on with every run it started, and the
\* periods pass
RecurFairness ==
  /\ WF_vars(\E r \in DigestRuns : DigestRunsOver(r) /\ trigger_send_notification_digests_endpoint(r))
  /\ WF_vars(\E r \in DigestRuns : digest_step_answered(r))
  /\ WF_vars(\E r \in DigestRuns : send_digests_for_user_send(r, "sent"))
  /\ WF_vars(\E t \in RecurInstants : digest_scheduler_next_round(t))
  /\ SF_vars(\E t \in RecurInstants : now < t /\ digest_scheduler_next_round(t))

SpecRecur == InitDm /\ [][NextRecur]_vars /\ RecurFairness

\* Digest runs that overlap: a second POST /api/tasks/send-digests while the
\* background task of the first is under way.
NextOverlap ==
  \/ \E u \in FlagUsers :
       Len(notifications) < MaxOverlapNotifications /\ crud_create_notification(u, "new_game_post")
  \/ \E r \in DigestRuns : trigger_send_notification_digests_endpoint(r)
  \/ \E r \in DigestRuns : scheduled_digest_sender_task_step(r)
  \/ \E r \in DigestRuns, o \in {"sent", "failed"} : send_digests_for_user_send(r, o)
  \/ \E t \in SelectInstants : Tick(t)

SpecOverlap == InitDm /\ [][NextOverlap]_vars

\* ================================================================ properties
\* The socket that connected last for user_id, 0 when none did.
LatestConnected(user_id) ==
  LET mine == {w \in DmSockets : dm_ws[w].state # "new" /\ dm_ws[w].user_id = user_id}
  IN IF mine = {} THEN 0 ELSE CHOOSE w \in mine : \A v \in mine : v <= w

\* C1: whatever connects and disconnects happened, a user id that has an
\* entry in the direct-message registry is associated with one socket, and it
\* is the socket that connected last for that user id.
C1_LastConnectWins ==
  \A u \in DOMAIN active_connections :
    /\ u \in Users
    /\ Cardinality({w \in DmSockets : active_connections[u] = w}) = 1
    /\ active_connections[u] = LatestConnected(u)

\* C1 witness: a user connected twice and the entry is the second socket,
\* while the first socket's loop is still running.
C1_Witness ==
  \E u \in DOMAIN active_connections :
    /\ active_connections[u] = 2
    /\ dm_ws[1].user_id = u
    /\ dm_ws[1].state = "open"

\* C2: no channel id is in the roleplay registry with an empty list.
C2_NoEmptyChannelEntry ==
  \A c \in DOMAIN rp_active_connections : rp_active_connections[c] # <<>>

\* C2 witness: a broadcast in which a send failed has emptied a channel that
\* had a subscriber, and the channel's key is gone.
C2_Witness ==
  /\ rp_response.status = 201
  /\ rp_response.raised # {}
  /\ rp_response.sent = {}
  /\ rp_response.channel_id \notin DOMAIN rp_active_connections

\* The registry without the socket: the socket is dropped from the channel's
\* list and a channel whose list became empty is dropped with it.
RegistryWithout(conns, channel_id, websocket) ==
  LET keep(c) == SelectSeq(conns[c], LAMBDA w : ~(c = channel_id /\ w = websocket))
      keys == {c \in DOMAIN conns : keep(c) # <<>>}
  IN [c \in keys |-> keep(c)]

\* A step of the broadcast loop sending to socket w, and its result.
BroadcastSendTo(w) ==
  /\ rp_request.pc = "broadcast"
  /\ rp_request.connections_to_broadcast[rp_request.next] = w
  /\ rp_request' # rp_request
BroadcastAfter == IF rp_request'.pc = "broadcast" THEN rp_request'.raised ELSE rp_response'.raised
BroadcastFinished == rp_request.pc = "broadcast" /\ rp_request'.pc = "idle"

\* C3: in a broadcast, a send that raises removes that socket and no other
\* from the registry, a send that succeeds removes nothing, and a broadcast
\* over N sockets in which exactly one send raised ends with a successful send
\* to each of the other N-1 and returns normally to its caller (201).
C3_BroadcastIsolatesFailure ==
  [][ /\ \A w \in RpSockets :
           BroadcastSendTo(w) =>
             IF w \in BroadcastAfter
               THEN rp_active_connections' =
                      RegistryWithout(rp_active_connections, rp_request.channel_id, w)
               ELSE rp_active_connections' = rp_active_connections
      /\ BroadcastFinished /\ Cardinality(rp_response'.raised) = 1 =>
           /\ rp_response'.status = 201
           /\ rp_response'.sent = Range(rp_response'.connections_to_broadcast) \ rp_response'.raised
           /\ Cardinality(rp_response'.sent) = Len(rp_response'.connections_to_broadcast) - 1
    ]_vars

\* C3 witness: a finished broadcast over three sockets, one send raised, two
\* succeeded, and the two are still registered.
C3_Witness ==
  /\ rp_response.status = 201
  /\ Len(rp_response.connections_to_broadcast) = 3
  /\ Cardinality(rp_response.raised) = 1
  /\ Cardinality(rp_response.sent) = 2
  /\ rp_response.channel_id \in DOMAIN rp_active_connections
  /\ Range(rp_active_connections[rp_response.channel_id]) = rp_response.sent

\* C4: when the loop of a socket ends and unregisters, a different socket that
\* is registered (under the same user or another) stays registered.
C4_UnregisterRemovesOnlyEnded ==
  [][ \A w \in DmSockets :
        (dm_ws[w].state \in {"open", "broken"} /\ dm_ws'[w].state = "closed") =>
          \A u \in DOMAIN active_connections :
            active_connections[u] # w =>
              (u \in DOMAIN active_connections' /\ active_connections'[u] = active_connections[u])
    ]_vars

\* A step in which send_direct_message persisted a message, and that message.
DmAccepted == Len(direct_messages') = Len(direct_messages) + 1
NewDm == direct_messages'[Len(direct_messages')]

\* C5: after a request whose push to the receiver's socket raised, the
\* receiver's id is no longer in the registry.
C5_FailedPushUnregisters ==
  [][ DmAccepted /\ dm_response'.push = "raised" =>
        NewDm.receiver_id \notin DOMAIN active_connections' ]_vars

\* C6: a request that persisted its direct message completes with 201 and
\* returns that message, whether or not the push raised.
C6_PushFailureNotSurfaced ==
  [][ DmAccepted =>
        (dm_response'.status = 201 /\ dm_response'.message_id = NewDm.id) ]_vars

\* The rows of the cool-down table of a pair, and the UTC instant a stored
\* timestamp denotes (a naive one is a UTC reading).
CooldownRows(s, r) ==
  {i \in DOMAIN dm_notification_cooldowns :
     /\ dm_notification_cooldowns[i].original_sender_id = s
     /\ dm_notification_cooldowns[i].receiver_id = r}
StoredInstant(dt) == IF dt.tz = "naive" THEN dt.wall ELSE dt.wall - dt.utcoffset
WithinCooldown(s, r) ==
  \E i \in CooldownRows(s, r) :
    now < StoredInstant(dm_notification_cooldowns[i].last_email_sent_at) + DM_EMAIL_COOLDOWN_MINUTES

\* C7: a direct message to a receiver who has a registry entry schedules no
\* e-mail and neither reads nor writes the cool-down table.
C7_OnlineNoCooldownBookkeeping ==
  [][ DmAccepted /\ NewDm.receiver_id \in DOMAIN active_connections =>
        /\ email_tasks' = email_tasks
        /\ dm_notification_cooldowns' = dm_notification_cooldowns
        /\ ~dm_response'.cooldown_read
        /\ ~dm_response'.cooldown_written ]_vars

\* C7 witness: a message went to an online receiver at a time when the pair
\* has a cool-down row whose window has elapsed (an e-mail would be allowed).
C7_Witness ==
  /\ dm_response.status = 201
  /\ dm_response.is_receiver_online_ws
  /\ dm_response.receiver_id \in DOMAIN active_connections
  /\ CooldownRows(dm_response.sender_id, dm_response.receiver_id) # {}
  /\ ~WithinCooldown(dm_response.sender_id, dm_response.receiver_id)

\* C8: a direct message to an offline receiver who takes e-mails, sent while
\* the pair's cool-down row is younger than the window, persists the message,
\* adds exactly one new_dm notification for the receiver, schedules no e-mail
\* and leaves the cool-down table as it was.
C8_CooldownSuppressesEmail ==
  [][ /\ DmAccepted
      /\ NewDm.receiver_id \notin DOMAIN active_connections
      /\ users[NewDm.receiver_id].email_notifications_enabled
      /\ WithinCooldown(NewDm.sender_id, NewDm.receiver_id)
      => /\ direct_messages' = Append(direct_messages, NewDm)
         /\ Len(notifications') = Len(notifications) + 1
         /\ SubSeq(notifications', 1, Len(notifications)) = notifications
         /\ notifications'[Len(notifications')].user_id = NewDm.receiver_id
         /\ notifications'[Len(notifications')].type = "new_dm"
         /\ email_tasks' = email_tasks
         /\ dm_notification_cooldowns' = dm_notification_cooldowns ]_vars

\* C8 witness: a message sent 14 minutes after the pair's e-mail was answered
\* 201 with the cool-down consulted and the e-mail denied.
C8_Witness ==
  /\ dm_response.status = 201
  /\ dm_response.cooldown_read
  /\ ~dm_response.email_scheduled
  /\ now = 14
  /\ WithinCooldown(dm_response.sender_id, dm_response.receiver_id)
  /\ Len(notifications) = Len(direct_messages)

\* The instants at which an e-mail was dispatched for the pair, from the
\* background tasks still queued and the record of the tasks that ran.
Dispatches(s, r) ==
  {t.scheduled_at : t \in {x \in email_tasks : x.original_sender_id = s /\ x.receiver_id = r}}
    \cup (IF email_results[<<s, r>>].outcome # "none"
            THEN {email_results[<<s, r>>].scheduled_at} ELSE {})

\* C9: for a message to an offline receiver, the e-mail is denied when the
\* pair's last e-mail was dispatched less than 15 minutes ago and allowed
\* otherwise; with no cool-down row it is allowed; and this is so for every
\* time zone form of the stored timestamp.
C9_CooldownWindow ==
  [][ /\ DmAccepted
      /\ NewDm.receiver_id \notin DOMAIN active_connections
      /\ users[NewDm.receiver_id].email_notifications_enabled
      => LET s == NewDm.sender_id
             r == NewDm.receiver_id
             recent == \E t \in Dispatches(s, r) : now < t + DM_EMAIL_COOLDOWN_MINUTES
             scheduled == email_tasks' # email_tasks
         IN /\ recent => ~scheduled
            /\ ~recent => scheduled
            /\ CooldownRows(s, r) = {} => scheduled ]_vars

\* C9 witness: with naive stored timestamps, an e-mail was dispatched at
\* minute 0 and the message at minute 15 was allowed the next one.
C9_Witness ==
  /\ db_session_tz.tz = "naive"
  /\ now = 15
  /\ dm_response.cooldown_read
  /\ dm_response.email_scheduled
  /\ email_results[<<dm_response.sender_id, dm_response.receiver_id>>].outcome # "none"
  /\ email_results[<<dm_response.sender_id, dm_response.receiver_id>>].scheduled_at = 0
  /\ \E t \in email_tasks :
       /\ t.original_sender_id = dm_response.sender_id
       /\ t.receiver_id = dm_response.receiver_id
       /\ t.scheduled_at = 15

\* C10: when the last e-mail of a pair failed to send, the cool-down does not
\* stand in the way of the next e-mail for the pair.
C10_FailedEmailNotCooledDown ==
  \A s \in Users, r \in Users :
    (/\ email_results[<<s, r>>].outcome = "failed"
     /\ \A t \in Dispatches(s, r) : t <= email_results[<<s, r>>].scheduled_at)
      => ~WithinCooldown(s, r)

DigestStepOf(r) == digest_tasks[r].pc = "loop" /\ digest_tasks'[r] # digest_tasks[r]
DigestSendOf(r) == digest_tasks[r].pc = "sending" /\ digest_tasks'[r].pc # "sending"
DigestUser(r) == Head(digest_tasks[r].users_for_digest)
\* the rows of the user that wait for a digest: of a digest type, not emailed
DigestPending(u) ==
  {i \in DOMAIN notifications :
     /\ notifications[i].user_id = u
     /\ ~notifications[i].emailed_in_digest
     /\ notifications[i].type \in DIGEST_NOTIFICATION_TYPES}
\* the pass ended with the query to the database raising
DigestFetchRaised(r) ==
  digest_tasks'[r].pc = "aborted" /\ digest_tasks'[r].last[1].outcome = "fetch_raised"

\* C12: when the digest e-mail of a user fails to send, no notification is
\* marked emailed-in-digest and the user's last_digest_sent_at stays as it was.
C12_FailedDigestCommitsNothing ==
  [][ \A r \in DigestRuns :
        (DigestSendOf(r) /\ digest_tasks'[r].last[1].outcome = "failed")
          => (notifications' = notifications /\ users' = users) ]_vars

\* C13: a pass for a user whose last digest was 25 hours ago and who has two
\* pending digest notifications created since goes on to send one digest with
\* exactly these two, and when the send is back both are marked and
\* last_digest_sent_at is the time of the run.
C13_DigestAfter25Hours ==
  [][ \A r \in DigestRuns :
        /\ (/\ DigestStepOf(r)
            /\ ~DigestFetchRaised(r)
            /\ users[DigestUser(r)].last_digest_sent_at # NoDatetime
            /\ utc_instant(users[DigestUser(r)].last_digest_sent_at) = now - 25 * 60
            /\ Cardinality({i \in DigestPending(DigestUser(r)) :
                              utc_instant(notifications[i].timestamp) >
                                utc_instant(users[DigestUser(r)].last_digest_sent_at)}) = 2)
           => /\ digest_tasks'[r].pc = "sending"
              /\ Range(digest_tasks'[r].notifications_to_send)
                   = {notifications[i].id : i \in DigestPending(DigestUser(r))}
        /\ DigestSendOf(r)
           => /\ \A i \in DOMAIN notifications :
                   notifications[i].id \in Range(digest_tasks[r].notifications_to_send)
                     => notifications'[i].emailed_in_digest
              /\ users'[DigestUser(r)].last_digest_sent_at = func_now ]_vars

\* C14: a pass for a user whose last digest was exactly 23 hours ago sends no
\* digest e-mail and changes neither the notifications nor the user.
C14_DigestSkippedAt23Hours ==
  [][ \A r \in DigestRuns :
        (/\ DigestStepOf(r)
         /\ users[DigestUser(r)].last_digest_sent_at # NoDatetime
         /\ utc_instant(users[DigestUser(r)].last_digest_sent_at) = now - 23 * 60)
          => /\ digest_tasks'[r].pc # "sending"
             /\ notifications' = notifications
             /\ users' = users ]_vars

\* C15: a failure while a run works on one user leaves no other user of the
\* run unprocessed.
C15_DigestFailureIsolated ==
  [][ \A r \in DigestRuns :
        (digest_tasks[r].pc # "aborted" /\ digest_tasks'[r].pc = "aborted")
          => Tail(digest_tasks[r].users_for_digest) = <<>> ]_vars

C17_NothingPendingNothingSent ==
  [][ \A r \in DigestRuns :
        (DigestStepOf(r) /\ DigestPending(DigestUser(r)) = {})
          => /\ digest_tasks'[r].pc # "sending"
             /\ notifications' = notifications
             /\ users' = users ]_vars

\* C17 witness: a run went past a user who has notifications, none of them
\* for a digest.
C17_Witness ==
  \E r \in DigestRuns :
    /\ digest_tasks[r].last # <<>>
    /\ digest_tasks[r].last[1].outcome = "no_notifications"
    /\ \E i \in DOMAIN notifications :
         notifications[i].user_id = digest_tasks[r].last[1].user_id

\* ------------------------------------------------------------- dice rolls
\* What the valid notations among Notations ask for.
ExpectedDice ==
  { [notation |-> <<"3", "d", "6", "+", "2">>, count |-> 3, sides |-> 6, modifier |-> 2],
    [notation |-> <<"2", "d", "4", "-", "1">>, count |-> 2, sides |-> 4, modifier |-> 0 - 1],
    [notation |-> <<"2", "d", "6">>, count |-> 2, sides |-> 6, modifier |-> 0],
    [notation |-> <<" ", "2", "D", "4", " ">>, count |-> 2, sides |-> 4, modifier |-> 0],
    [notation |-> <<"1", "0", "0", "d", "1">>, count |-> 100, sides |-> 1, modifier |-> 0] }

\* C18: for a valid notation the parser gives count rolls, each in 1..sides,
\* and a total that is the sum of the rolls plus the signed modifier.
C18_DiceTotalWithModifier ==
  \A e \in ExpectedDice :
    rp_roll.notation = e.notation
      => /\ rp_roll.parsed_roll # <<>>
         /\ Len(rp_roll.parsed_roll[1].rolls) = e.count
         /\ \A i \in DOMAIN rp_roll.parsed_roll[1].rolls :
              rp_roll.parsed_roll[1].rolls[i] \in 1..e.sides
         /\ rp_roll.parsed_roll[1].total = sum(rp_roll.parsed_roll[1].rolls) + e.modifier

\* the notations "0d6", "101d6", "d6" and "3d0"
RejectedNotations ==
  { <<"0", "d", "6">>, <<"1", "0", "1", "d", "6">>, <<"d", "6">>, <<"3", "d", "0">> }

\* C19: a roll request on the permitted channel with one of the notations
\* "0d6", "101d6", "d6", "3d0" is answered 400, persists no message and starts
\* no broadcast.
C19_InvalidRollRejected ==
  [][ (/\ rp_request.pc = "idle"
       /\ <<rp_roll', rp_response'>> # <<rp_roll, rp_response>>
       /\ rp_roll'.notation \in RejectedNotations
       /\ rp_response'.op = "rp_dice_roll"
       /\ rp_response'.channel_id = TEST_CHANNEL_ID_FOR_GDM_RP)
        => /\ rp_response'.status = 400
           /\ rp_roll'.parsed_roll = <<>>
           /\ game_messages' = game_messages
           /\ rp_request' = rp_request ]_vars

\* C19 witness: "101d6" was rejected while the channel has a subscriber and
\* an earlier roll is in the table.
C19_Witness ==
  /\ rp_response.op = "rp_dice_roll"
  /\ rp_response.status = 400
  /\ rp_roll.notation = <<"1", "0", "1", "d", "6">>
  /\ TEST_CHANNEL_ID_FOR_GDM_RP \in DOMAIN rp_active_connections
  /\ game_messages # <<>>

\* C20: the roleplay registry has no entry for a channel id other than the
\* permitted one.
C20_OnlyPermittedChannelRegistered ==
  DOMAIN rp_active_connections \subseteq {TEST_CHANNEL_ID_FOR_GDM_RP}

\* ------------------------------------------------ order and content of pushes
\* The rows of the game_messages table that a frame is the serialisation of.
FrameRows(table, frame) ==
  {i \in DOMAIN table : RpChatMessageResponse_from_orm(table[i]) = frame}
\* The socket is in the channel's list.
RegisteredUnder(conns, channel_id, w) ==
  channel_id \in DOMAIN conns /\ w \in Range(conns[channel_id])

\* C21: broadcasts to a channel that follow one another reach every
\* connection in their order.  A connection is handed its frames in the order
\* in which the messages were broadcast and keeps those it was handed; and
\* when a broadcast is over, every connection that was registered under the
\* channel when it began and still is has the message of that broadcast as
\* its last frame.  So a connection registered throughout two broadcasts has
\* the first message in front of the second.
C21_BroadcastOrderPerConnection ==
  [][ /\ \A w \in RpSockets :
           /\ Len(rp_ws'[w].frames) >= Len(rp_ws[w].frames)
           /\ SubSeq(rp_ws'[w].frames, 1, Len(rp_ws[w].frames)) = rp_ws[w].frames
           /\ \A i \in DOMAIN rp_ws'[w].frames : \A j \in DOMAIN rp_ws'[w].frames :
                i < j => \A a \in FrameRows(game_messages', rp_ws'[w].frames[i]) :
                           \A b \in FrameRows(game_messages', rp_ws'[w].frames[j]) : a < b
      /\ BroadcastFinished =>
           \A w \in Range(rp_request.connections_to_broadcast) :
             RegisteredUnder(rp_active_connections', rp_request.channel_id, w) =>
               /\ rp_ws'[w].frames # <<>>
               /\ FrameRows(game_messages', rp_ws'[w].frames[Len(rp_ws'[w].frames)])
                    = {rp_request.message_id}
    ]_vars

\* C21 witness: after two broadcasts a connection that was registered
\* throughout both holds the two messages in order, next to a connection that
\* joined between them and holds the second only.
C21_Witness ==
  /\ rp_request.pc = "idle"
  /\ rp_response.status = 201
  /\ rp_response.message_id = 2
  /\ \E w \in RpSockets : \E v \in RpSockets :
       /\ RegisteredUnder(rp_active_connections, TEST_CHANNEL_ID_FOR_GDM_RP, w)
       /\ RegisteredUnder(rp_active_connections, TEST_CHANNEL_ID_FOR_GDM_RP, v)
       /\ Len(rp_ws[w].frames) = 2
       /\ FrameRows(game_messages, rp_ws[w].frames[1]) = {1}
       /\ FrameRows(game_messages, rp_ws[w].frames[2]) = {2}
       /\ Len(rp_ws[v].frames) = 1
       /\ FrameRows(game_messages, rp_ws[v].frames[1]) = {2}

\* C22: what is pushed to a socket is the serialisation of the message the
\* same request stored before, with the id and the timestamp of the stored
\* row: the data of a direct-message push is the serialisation of the row the
\* request added, and a frame of a broadcast (of a message or of a dice roll)
\* is the serialisation of the row of the request in the table; a request
\* that stored nothing pushes nothing.
C22_PushOfPersistedMessage ==
  [][ /\ (/\ dm_response'.push # "none"
          /\ (dm_response' # dm_response \/ direct_messages' # direct_messages))
           => /\ DmAccepted
              /\ dm_response'.message_to_send = <<DirectMessage_from_orm(NewDm)>>
              /\ dm_response'.message_to_send[1].id = NewDm.id
              /\ dm_response'.message_to_send[1].timestamp = isoformat(NewDm.timestamp)
      /\ \A w \in RpSockets :
           rp_ws'[w].frames # rp_ws[w].frames
             => /\ rp_request.pc = "broadcast"
                /\ rp_request.message_id \in DOMAIN game_messages
                /\ game_messages[rp_request.message_id].id = rp_request.message_id
                /\ rp_ws'[w].frames =
                     Append(rp_ws[w].frames,
                            RpChatMessageResponse_from_orm(game_messages[rp_request.message_id]))
      /\ (rp_request.pc = "idle" /\ rp_request'.pc = "broadcast")
           => /\ Len(game_messages') = Len(game_messages) + 1
              /\ SubSeq(game_messages', 1, Len(game_messages)) = game_messages
              /\ rp_request'.message_id = Len(game_messages')
    ]_vars

\* C22 witness: at a later minute a direct message was pushed to its
\* receiver's socket and a dice roll was broadcast to a subscriber.
C22_Witness ==
  /\ dm_response.push = "sent"
  /\ dm_response.message_to_send # <<>>
  /\ dm_response.message_to_send[1].timestamp.wall > 0
  /\ rp_response.op = "rp_dice_roll"
  /\ rp_response.status = 200
  /\ \E w \in rp_response.sent :
       /\ rp_ws[w].frames # <<>>
       /\ rp_ws[w].frames[1].timestamp.wall > 0

\* ------------------------------------------------------------- unregister
\* the ids unregister can be called with, registered or not
UnregisterUserIds == Users \cup {UnknownUserId}
UnregisterChannelIds == Channels \cup {"unknown-channel"}

\* C23: unregister is idempotent on both registries.  On every registry the
\* program gets to, unregistering a user id, a channel id or a connection
\* that is not registered gives the registry back as it is, and unregistering
\* twice gives what unregistering once gives; and the receive loop of a
\* socket that is no longer registered ends without changing its registry.
C23_UnregisterIdempotent ==
  [][ /\ \A u \in UnregisterUserIds :
           LET once == ConnectionManager_disconnect(active_connections', u)
           IN /\ u \notin DOMAIN active_connections' => once = active_connections'
              /\ ConnectionManager_disconnect(once, u) = once
      /\ \A w \in RpSockets, c \in UnregisterChannelIds :
           LET once == RpConnectionManager_disconnect(rp_active_connections', w, c)
           IN /\ ~RegisteredUnder(rp_active_connections', c, w) => once = rp_active_connections'
              /\ RpConnectionManager_disconnect(once, w, c) = once
      /\ \A w \in DmSockets :
           (/\ dm_ws[w].state \in {"open", "broken"} /\ dm_ws'[w].state = "closed"
            /\ dm_ws[w].user_id \notin DOMAIN active_connections)
             => active_connections' = active_connections
      /\ \A w \in RpSockets :
           (/\ rp_ws[w].state \in {"open", "broken"} /\ rp_ws'[w].state = "closed"
            /\ ~RegisteredUnder(rp_active_connections, rp_ws[w].channel_id, w))
             => rp_active_connections' = rp_active_connections
    ]_vars

\* C23 witness: both registries saw a second unregister.  The two sockets of
\* one user are closed, the second after the first had removed the user's
\* entry; and a roleplay socket that a broadcast had unregistered has closed
\* while another socket of the channel stays registered.
C23_Witness ==
  /\ dm_ws[1].state = "closed" /\ dm_ws[2].state = "closed"
  /\ dm_ws[1].user_id = dm_ws[2].user_id
  /\ dm_ws[1].user_id \notin DOMAIN active_connections
  /\ \E w \in rp_response.raised :
       /\ rp_ws[w].state = "closed"
       /\ rp_response.channel_id \in DOMAIN rp_active_connections
       /\ rp_active_connections[rp_response.channel_id] # <<>>

\* ------------------------------------------------------ notification flags
\* C24: no step of a direct-message send, a mark-read, a mark-all-read or a
\* digest run deletes a notification, and none turns the read flag or the
\* emailed-in-digest flag of a notification from true back to false.
C24_NotificationsKeptFlagsMonotone ==
  [][ /\ Len(notifications') >= Len(notifications)
      /\ \A i \in DOMAIN notifications :
           /\ notifications'[i].id = notifications[i].id
           /\ notifications'[i].user_id = notifications[i].user_id
           /\ notifications[i].is_read => notifications'[i].is_read
           /\ notifications[i].emailed_in_digest => notifications'[i].emailed_in_digest
    ]_vars

\* C24 witness: a digest run has gone through two users after a notification
\* was read: the first user's notification is read and emailed, the second
\* user's is emailed, and both are in the table.
C24_Witness ==
  /\ Len(notifications) = 2
  /\ notifications[1].user_id = 1 /\ notifications[2].user_id = 2
  /\ notifications[1].is_read /\ notifications[1].emailed_in_digest
  /\ notifications[2].emailed_in_digest
  /\ digest_tasks[1].pc = "finished"
  /\ digest_tasks[1].last # <<>>
  /\ digest_tasks[1].last[1].user_id = 2
  /\ digest_tasks[1].last[1].outcome = "sent"

\* ------------------------------------------- broadcast against disconnect
\* A push of the broadcast begins: send_text is called on the next connection
\* of the snapshot, when the snapshot was taken or when the send before it is
\* back.
BroadcastPushBegins ==
  /\ rp_request'.pc = "broadcast"
  /\ (rp_request.pc = "idle" \/ rp_request'.next # rp_request.next)

\* C25: every push of a broadcast goes to a connection that is registered
\* under the channel at the moment the push begins, also when a subscriber
\* of the channel disconnects while the broadcast is under way.
C25_BroadcastPushesToRegistered ==
  [][ BroadcastPushBegins =>
        RegisteredUnder(rp_active_connections', rp_request'.channel_id,
                        rp_request'.connections_to_broadcast[rp_request'.next])
    ]_vars

\* ------------------------------------------------- end of the receive loop
\* C26: once the receive loop of a connection has ended, the connection is in
\* no registry: no user id maps to it in the direct-message registry, and it
\* is in no channel's list of the roleplay registry.
C26_EndedLoopUnregistered ==
  [][ /\ \A w \in DmSockets :
           dm_ws'[w].state = "closed" =>
             \A u \in DOMAIN active_connections' : active_connections'[u] # w
      /\ \A w \in RpSockets :
           rp_ws'[w].state = "closed" =>
             \A c \in DOMAIN rp_active_connections' : w \notin Range(rp_active_connections'[c])
    ]_vars

\* C26 witness: on each endpoint the loop of the first socket has ended while
\* the second socket is registered.
C26_Witness ==
  /\ dm_ws[1].state = "closed"
  /\ dm_ws[2].state = "open"
  /\ dm_ws[2].user_id \in DOMAIN active_connections
  /\ active_connections[dm_ws[2].user_id] = 2
  /\ rp_ws[1].state = "closed"
  /\ rp_ws[2].state = "open"
  /\ RegisteredUnder(rp_active_connections, rp_ws[2].channel_id, 2)
  /\ rp_ws[1].channel_id = rp_ws[2].channel_id

\* ------------------------------------------------------ digest: skip rule
\* The pass of run r ended with `continue` at the skip test.
DigestSkipped(r) ==
  /\ digest_tasks'[r].pc \in {"loop", "finished"}
  /\ digest_tasks'[r].last # <<>>
  /\ digest_tasks'[r].last[1].outcome = "skipped"
\* The pass of run r got past the skip test, to the query for the notifications.
DigestPastSkipTest(r) ==
  \/ digest_tasks'[r].pc = "sending"
  \/ /\ digest_tasks'[r].last # <<>>
     /\ digest_tasks'[r].last[1].outcome \in {"no_notifications", "no_content", "fetch_raised"}

\* C27: a pass skips its user exactly when the user's last_digest_sent_at is
\* set and now is earlier than last_digest_sent_at + 24 h - 1 h; a user with
\* no last_digest_sent_at is not skipped; a pass that does not skip goes on
\* to the user's notifications; and a skip sends nothing and changes neither
\* the notifications nor the users.
C27_DigestSkipRule ==
  [][ \A r \in DigestRuns :
        DigestStepOf(r) =>
          LET last == users[DigestUser(r)].last_digest_sent_at
              early == /\ last # NoDatetime
                       /\ now < StoredInstant(last) + (DIGEST_PERIOD_HOURS - 1) * 60
          IN /\ DigestSkipped(r) <=> early
             /\ ~early => DigestPastSkipTest(r)
             /\ DigestSkipped(r) => (notifications' = notifications /\ users' = users)
    ]_vars

\* ------------------------------------------------ e-mails of a pair in time
\* The e-mails scheduled for the pair that wait in the background.
ScheduledFor(tasks, s, r) == {t \in tasks : t.original_sender_id = s /\ t.receiver_id = r}

\* C28: the e-mails scheduled for an ordered pair of sender and receiver are
\* at least 15 minutes apart, whatever messages, connects and disconnects
\* came before; and whether a message to an offline receiver gets its e-mail
\* depends on the e-mails of its own pair only: it is scheduled unless one was
\* scheduled for the same pair less than 15 minutes ago, whatever was
\* scheduled for another pair, the reversed one included.
C28_PairEmailsSpacedAndIndependent ==
  [][ /\ \A s \in Users, r \in Users :
           \A t1 \in ScheduledFor(email_tasks', s, r) : \A t2 \in ScheduledFor(email_tasks', s, r) :
             t1 # t2 => \/ t1.scheduled_at + DM_EMAIL_COOLDOWN_MINUTES <= t2.scheduled_at
                        \/ t2.scheduled_at + DM_EMAIL_COOLDOWN_MINUTES <= t1.scheduled_at
      /\ (DmAccepted /\ dm_response'.email_scheduled) =>
           /\ ScheduledFor(email_tasks, NewDm.sender_id, NewDm.receiver_id)
                # ScheduledFor(email_tasks', NewDm.sender_id, NewDm.receiver_id)
           /\ \A s \in Users, r \in Users :
                <<s, r>> # <<NewDm.sender_id, NewDm.receiver_id>> =>
                  ScheduledFor(email_tasks', s, r) = ScheduledFor(email_tasks, s, r)
      /\ (/\ DmAccepted
          /\ NewDm.receiver_id \notin DOMAIN active_connections
          /\ users[NewDm.receiver_id].email_notifications_enabled)
           => (dm_response'.email_scheduled
                 <=> \A t \in ScheduledFor(email_tasks, NewDm.sender_id, NewDm.receiver_id) :
                       t.scheduled_at + DM_EMAIL_COOLDOWN_MINUTES <= now)
    ]_vars

\* C28 witness: after a connect and a disconnect, an e-mail of the pair (1, 2)
\* was scheduled at minute 0 and one of the reversed pair at minute 14, inside
\* the window of the first.
C28_Witness ==
  /\ dm_ws[1].state = "closed"
  /\ [original_sender_id |-> 1, receiver_id |-> 2, scheduled_at |-> 0] \in email_tasks
  /\ [original_sender_id |-> 2, receiver_id |-> 1, scheduled_at |-> 14] \in email_tasks
  /\ dm_response.email_scheduled
  /\ dm_response.sender_id = 2

\* ------------------------------------------------- digest: nothing left out
\* Notification i went out in a digest e-mail: the pass of a run that sent
\* its e-mail had it in its list.
IncludedInDigest(i) ==
  \E r \in DigestRuns :
    /\ i \in DOMAIN notifications
    /\ digest_tasks[r].last # <<>>
    /\ digest_tasks[r].last[1].outcome = "sent"
    /\ notifications[i].id \in digest_tasks[r].last[1].notification_ids

\* Notification i is a digest notification of a user with e-mail
\* notifications on that no digest has taken up yet, created while a period
\* of runs is still to come.
AwaitsDigest(i) ==
  /\ i \in DOMAIN notifications
  /\ ~notifications[i].emailed_in_digest
  /\ notifications[i].type \in DIGEST_NOTIFICATION_TYPES
  /\ notifications[i].type \notin EXCLUDED_FROM_DIGEST_TYPES
  /\ users[notifications[i].user_id].email_notifications_enabled
  /\ \E t \in RecurInstants : utc_instant(notifications[i].timestamp) < t

\* C29: with digest runs recurring and every e-mail going out, each digest
\* notification of a user with e-mail notifications on is eventually in a
\* digest e-mail, the one created between the fetch and the update of
\* last_digest_sent_at included.
C29_EveryNotificationDigested ==
  \A i \in 1..MaxRecurNotifications : AwaitsDigest(i) ~> IncludedInDigest(i)

\* ----------------------------------------------- digest: overlapping runs
\* C30: no notification is in the digest e-mails of two runs: the passes of
\* two runs that sent their e-mail have no notification in common.
C30_NoNotificationInTwoDigests ==
  \A r1 \in DigestRuns, r2 \in DigestRuns :
    (/\ r1 # r2
     /\ digest_tasks[r1].last # <<>> /\ digest_tasks[r1].last[1].outcome = "sent"
     /\ digest_tasks[r2].last # <<>> /\ digest_tasks[r2].last[1].outcome = "sent")
      => digest_tasks[r1].last[1].notification_ids
           \cap digest_tasks[r2].last[1].notification_ids = {}

====
